---- MODULE Spec2Model ----
(***************************************************************************)
(* Model of golang-yaml-advanced: the Node / Document / NodeTree heap of   *)
(* yaml.go and the algorithms built on it (Clone, MergeNodes,              *)
(* MergeDocuments, MergeTrees, DiffNodes, DiffTrees, UnmarshalYAML /       *)
(* ToYAML document handling) and the TransformDSL of advanced.go.          *)
(*                                                                         *)
(* Go pointers are indices into the sequence `heap` (nodes) and `dheap`    *)
(* (documents); Nil is 0 and allocation appends.  Every operation takes    *)
(* the heap(s) and returns the new heap(s) with its result, so object      *)
(* identity, aliasing and mutation are all visible.                        *)
(*                                                                         *)
(* Node fields Line, Column, EmptyLines and Metadata are left out: Clone   *)
(* copies them verbatim and none of the modelled operations reads them.    *)
(***************************************************************************)
EXTENDS Integers, Sequences, FiniteSets, TLC

VARIABLES heap,      \* Seq of Node records: heap[p] is the object *Node p
          dheap,     \* Seq of Document records
          theap,     \* Seq of NodeTree records
          in,        \* the arguments of the call under study
          out,       \* what the call returned
          pc,        \* "ready" before the call, then the name of the call
          pre,       \* heap and dheap as they were when the call was made
          mapOrder,  \* the order in which Go's `range` visits map keys
          dsl        \* TransformDSL.transforms: the queued operations

vars == <<heap, dheap, theap, in, out, pc, pre, mapOrder, dsl>>

Nil == 0

\* Let(v, LAMBDA x : e) is e with x bound to v: the value of a call is named
\* once and used many times, as a Go local variable is
Let(v, K(_)) == K(v)

(***************************************************************************)
(* Values.  Node.Value is an interface{}: a dynamic type and a payload.    *)
(* The payload is kept as the text fmt.Sprintf("%v", v) prints, so that    *)
(* int 1 and string "1" are different values with the same rendering.      *)
(***************************************************************************)
StrV(s) == [t |-> "string", s |-> s]
IntV(s) == [t |-> "int", s |-> s]
NilV == [t |-> "nil", s |-> ""]

\* fmt.Sprintf("%v", v)
Render(v) == IF v.t = "nil" THEN "<nil>" ELSE v.s

(***************************************************************************)
(* Constructors                                                            *)
(***************************************************************************)
NewNodeRec(kind) ==
  [Kind |-> kind, Style |-> "DefaultStyle", Tag |-> "", Value |-> NilV,
   Anchor |-> "", Alias |-> Nil, Parent |-> Nil, Children |-> <<>>,
   Key |-> Nil, HeadComment |-> <<>>, LineComment |-> "",
   FootComment |-> <<>>]

\* NewNode: allocates; returns the heap and the new pointer
NewNode(h, kind) == [h |-> Append(h, NewNodeRec(kind)), n |-> Len(h) + 1]

NewScalarNode(h, value) ==
  Let(NewNode(h, "ScalarNode"),
      LAMBDA r : [h |-> [r.h EXCEPT ![r.n].Value = value], n |-> r.n])

NewMappingNode(h) == NewNode(h, "MappingNode")

NewSequenceNode(h) == NewNode(h, "SequenceNode")

\* n.AddChild(child)
AddChild(h, n, child) ==
  IF child # Nil
    THEN [h EXCEPT ![child].Parent = n, ![n].Children = Append(@, child)]
    ELSE h

\* n.AddKeyValue(key, value); the error return is not modelled (callers drop it)
AddKeyValue(h, n, key, value) ==
  IF h[n].Kind # "MappingNode" THEN h
  ELSE IF key # Nil
    THEN [h EXCEPT ![key].Parent = n,
                   ![value].Parent = n,
                   ![value].Key = key,
                   ![n].Children = Append(Append(@, key), value)]
    ELSE h

\* n.AddSequenceItem(item)
AddSequenceItem(h, n, item) ==
  IF h[n].Kind # "SequenceNode" THEN h ELSE AddChild(h, n, item)

(***************************************************************************)
(* Input trees are described by terms (nested records) and allocated with  *)
(* the constructors above, the way ConvertFromYAMLNode and the tests build *)
(* them: mapping pairs with AddKeyValue (kv = TRUE) or, as several tests   *)
(* do, with two AddChild calls per pair (kv = FALSE: Key stays nil).       *)
(***************************************************************************)
Term(kind, value, kids) ==
  [Kind |-> kind, Style |-> "DefaultStyle", Tag |-> "", Value |-> value,
   Anchor |-> "", HeadComment |-> <<>>, LineComment |-> "",
   FootComment |-> <<>>, Kids |-> kids]

Sc(s) == Term("ScalarNode", StrV(s), <<>>)
ScInt(s) == [Term("ScalarNode", IntV(s), <<>>) EXCEPT !.Tag = "!!int"]
Map(kids) == Term("MappingNode", NilV, kids)
SeqT(kids) == Term("SequenceNode", NilV, kids)
DocT(kids) == Term("DocumentNode", NilV, kids)
AliasT(name) == Term("AliasNode", StrV(name), <<>>)
WithHead(t, c) == [t EXCEPT !.HeadComment = c]
WithLine(t, c) == [t EXCEPT !.LineComment = c]
WithFoot(t, c) == [t EXCEPT !.FootComment = c]
WithStyle(t, s) == [t EXCEPT !.Style = s]
WithTag(t, g) == [t EXCEPT !.Tag = g]

RECURSIVE Build(_, _, _), BuildKids(_, _, _, _, _)
\* allocate term t; returns [h, n]
Build(h, t, kv) ==
  Let(NewNode(h, t.Kind), LAMBDA r :
    [h |-> BuildKids([r.h EXCEPT ![r.n].Style = t.Style, ![r.n].Tag = t.Tag,
                        ![r.n].Value = t.Value, ![r.n].Anchor = t.Anchor,
                        ![r.n].HeadComment = t.HeadComment,
                        ![r.n].LineComment = t.LineComment,
                        ![r.n].FootComment = t.FootComment],
                     r.n, t.Kids, 1, kv),
     n |-> r.n])

BuildKids(h, n, kids, i, kv) ==
  IF i > Len(kids) THEN h
  ELSE IF h[n].Kind = "MappingNode" /\ kv /\ i < Len(kids)
    THEN Let(Build(h, kids[i], kv), LAMBDA k :
         Let(Build(k.h, kids[i + 1], kv), LAMBDA v :
           BuildKids(AddKeyValue(v.h, n, k.n, v.n), n, kids, i + 2, kv)))
    ELSE Let(Build(h, kids[i], kv), LAMBDA c :
           BuildKids(AddChild(c.h, n, c.n), n, kids, i + 1, kv))

(***************************************************************************)
(* Clone / cloneWithSeen.  `seen` is the map[*Node]*Node, kept as a set of *)
(* <<original, clone>> pairs.                                              *)
(***************************************************************************)
SeenHas(seen, n) == \E p \in seen : p[1] = n
\* a lookup that answers with the node asked about instead of its clone
SeenGet_original(seen, n) == n

SeenGet(seen, n) == (CHOOSE p \in seen : p[1] = n)[2]

RECURSIVE cloneWithSeen(_, _, _), cloneChildren(_, _, _, _, _)
\* returns [h, seen, n]
cloneWithSeen(h, seen, n) ==
  IF n = Nil THEN [h |-> h, seen |-> seen, n |-> Nil]
  ELSE IF SeenHas(seen, n) THEN [h |-> h, seen |-> seen, n |-> SeenGet(seen, n)]
  ELSE
    LET c   == Len(h) + 1
        \* the struct literal: Alias, Parent and Key are not among its fields
        rec == [h[n] EXCEPT !.Alias = Nil, !.Parent = Nil,
                            !.Children = <<>>, !.Key = Nil]
    IN  Let(cloneChildren(Append(h, rec), seen \cup {<<n, c>>}, c,
                          h[n].Children, 1),
            LAMBDA s1 :
              IF h[n].Key # Nil
                THEN Let(cloneWithSeen(s1.h, s1.seen, h[n].Key), LAMBDA k :
                       [h |-> [k.h EXCEPT ![c].Key = k.n], seen |-> k.seen,
                        n |-> c])
                ELSE [h |-> s1.h, seen |-> s1.seen, n |-> c])

\* the loop `for _, child := range n.Children` of cloneWithSeen; returns [h, seen]
cloneChildren(h, seen, c, kids, i) ==
  IF i > Len(kids) THEN [h |-> h, seen |-> seen]
  ELSE Let(cloneWithSeen(h, seen, kids[i]), LAMBDA r :
         cloneChildren(IF r.n # Nil
                         THEN [r.h EXCEPT ![r.n].Parent = c,
                                          ![c].Children = Append(@, r.n)]
                         ELSE r.h,
                       r.seen, c, kids, i + 1))

\* a Clone that hands back its receiver: the copy and the original are
\* one object
Clone_shared(h, n) == [h |-> h, n |-> n]

\* n.Clone(); returns [h, n]
Clone(h, n) ==
  Let(cloneWithSeen(h, {}, n), LAMBDA r : [h |-> r.h, n |-> r.n])


(***************************************************************************)
(* Go maps with string keys are functions on a finite set of strings.      *)
(***************************************************************************)
EmptyMap == [x \in {} |-> Nil]
MapPut(m, k, v) == [x \in DOMAIN m \cup {k} |-> IF x = k THEN v ELSE m[x]]

(***************************************************************************)
(* MergeNodes.  Indices are 1-based: Go's children[i] is Children[i + 1],  *)
(* so the loops `for i := 0; i < len-1; i += 2` run i = 1, 3, .. while     *)
(* i + 1 <= Len.  Comment slices are copied by value (Go shares the        *)
(* backing array; no modelled operation writes through one).               *)
(***************************************************************************)
RECURSIVE baseKeysOf(_, _, _, _)
\* the loop that fills baseKeys: a later pair with the same key text wins
baseKeysOf(h, base, i, m) ==
  IF i + 1 > Len(h[base].Children) THEN m
  ELSE LET keyNode == h[base].Children[i]
       IN  baseKeysOf(h, base, i + 2,
             IF h[keyNode].Kind = "ScalarNode"
               THEN MapPut(m, Render(h[keyNode].Value), i)
               ELSE m)

\* a variant of the branch "Replace with overlay value" that keeps base's
\* value
replaceValue_kept(h, result, baseIdx, overlayKey, overlayValue) == h

\* the branch "Replace with overlay value" for a key found in base
replaceValue(h, result, baseIdx, overlayKey, overlayValue) ==
  LET bk == h[result].Children[baseIdx]
  IN  Let(Clone(h, overlayValue), LAMBDA cv :
      Let(Clone(cv.h, bk), LAMBDA ck :
        [ck.h EXCEPT
           ![cv.n].Key = ck.n,
           ![bk].HeadComment = IF Len(h[overlayKey].HeadComment) > 0
                                 THEN h[overlayKey].HeadComment ELSE @,
           ![bk].LineComment = IF h[overlayKey].LineComment # ""
                                 THEN h[overlayKey].LineComment ELSE @,
           ![bk].FootComment = IF Len(h[overlayKey].FootComment) > 0
                                 THEN h[overlayKey].FootComment ELSE @,
           ![result].Children[baseIdx + 1] = cv.n]))

\* a variant of the branch "Key doesn't exist in base" that adds nothing
appendPair_dropped(h, result, overlayKey, overlayValue) == h

\* the branch "Key doesn't exist in base - add it"
appendPair(h, result, overlayKey, overlayValue) ==
  Let(Clone(h, overlayKey), LAMBDA ck :
  Let(Clone(ck.h, overlayValue), LAMBDA cv :
    [cv.h EXCEPT ![ck.n].Parent = result,
                 ![cv.n].Parent = result,
                 ![cv.n].Key = ck.n,
                 ![result].Children = Append(Append(@, ck.n), cv.n)]))

RECURSIVE mergeSeqItems(_, _, _, _)
\* a variant of the sequence loop that skips an item whose rendered value
\* the result already holds
mergeSeqItems_dedup(h, result, overlay, i) ==
  IF i > Len(h[overlay].Children) THEN h
  ELSE IF \E j \in 1..Len(h[result].Children) :
            Render(h[h[result].Children[j]].Value)
              = Render(h[h[overlay].Children[i]].Value)
    THEN mergeSeqItems(h, result, overlay, i + 1)
  ELSE Let(Clone(h, h[overlay].Children[i]), LAMBDA c :
         mergeSeqItems(AddChild(c.h, result, c.n), result, overlay, i + 1))

\* the sequence branch: result.AddChild(item.Clone()) for every overlay item
mergeSeqItems(h, result, overlay, i) ==
  IF i > Len(h[overlay].Children) THEN h
  ELSE Let(Clone(h, h[overlay].Children[i]), LAMBDA c :
         mergeSeqItems(AddChild(c.h, result, c.n), result, overlay, i + 1))

\* an overlay that takes base's comments only when it has none of its own
overlayWins_allOrNothing(h, base, overlay) ==
  Let(Clone(h, overlay), LAMBDA o :
    IF Len(o.h[o.n].HeadComment) = 0 /\ o.h[o.n].LineComment = ""
       /\ Len(o.h[o.n].FootComment) = 0
      THEN [h |-> [o.h EXCEPT ![o.n].HeadComment = h[base].HeadComment,
                              ![o.n].LineComment = h[base].LineComment,
                              ![o.n].FootComment = h[base].FootComment],
            n |-> o.n]
      ELSE o)

\* the last branch: overlay's clone, with base's comments where it has none
overlayWins(h, base, overlay) ==
  Let(Clone(h, overlay), LAMBDA o :
    [h |-> [o.h EXCEPT
              ![o.n].HeadComment =
                 IF Len(@) = 0 /\ Len(h[base].HeadComment) > 0
                   THEN h[base].HeadComment ELSE @,
              ![o.n].LineComment =
                 IF @ = "" /\ h[base].LineComment # ""
                   THEN h[base].LineComment ELSE @,
              ![o.n].FootComment =
                 IF Len(@) = 0 /\ Len(h[base].FootComment) > 0
                   THEN h[base].FootComment ELSE @],
     n |-> o.n])

RECURSIVE MergeNodes(_, _, _), mergeOverlayKeys(_, _, _, _, _)
\* MergeNodes(base, overlay); returns [h, n]
MergeNodes(h, base, overlay) ==
  IF base = Nil
    THEN IF overlay = Nil THEN [h |-> h, n |-> Nil] ELSE Clone(h, overlay)
  ELSE IF overlay = Nil THEN Clone(h, base)
  ELSE
    Let(Clone(h, base), LAMBDA r :
      IF h[base].Kind = "MappingNode" /\ h[overlay].Kind = "MappingNode"
        THEN [h |-> mergeOverlayKeys(r.h, r.n,
                      baseKeysOf(h, base, 1, EmptyMap), overlay, 1),
              n |-> r.n]
      ELSE IF h[base].Kind = "SequenceNode"
               /\ h[overlay].Kind = "SequenceNode"
        THEN [h |-> mergeSeqItems(r.h, r.n, overlay, 1), n |-> r.n]
      ELSE overlayWins(r.h, base, overlay))

\* the loop "Process overlay keys"; returns the heap
mergeOverlayKeys(h, result, baseKeys, overlay, i) ==
  IF i + 1 > Len(h[overlay].Children) THEN h
  ELSE
    LET overlayKey   == h[overlay].Children[i]
        overlayValue == h[overlay].Children[i + 1]
        keyStr       == Render(h[overlayKey].Value)
    IN  mergeOverlayKeys(
          IF h[overlayKey].Kind # "ScalarNode" THEN h
          ELSE IF keyStr \in DOMAIN baseKeys
            THEN LET baseIdx   == baseKeys[keyStr]
                     baseValue == h[result].Children[baseIdx + 1]
                 IN  IF h[baseValue].Kind = "MappingNode"
                        /\ h[overlayValue].Kind = "MappingNode"
                       THEN Let(MergeNodes(h, baseValue, overlayValue),
                                LAMBDA m :
                                  [m.h EXCEPT
                                     ![result].Children[baseIdx + 1] = m.n])
                       ELSE replaceValue(h, result, baseIdx, overlayKey,
                                         overlayValue)
            ELSE appendPair(h, result, overlayKey, overlayValue),
          result, baseKeys, overlay, i + 2)


(***************************************************************************)
(* Documents and trees.  A store st = [h, d, t] holds the node heap, the   *)
(* document heap and the tree heap; Document and NodeTree pointers index   *)
(* d and t.  Anchors is the map[string]*Node.                              *)
(***************************************************************************)
NewDocRec == [Root |-> Nil, Directives |-> <<>>, Version |-> "",
              Anchors |-> EmptyMap]

\* NewNodeTree(); returns [st, t]
NewNodeTree(st) ==
  [st |-> [st EXCEPT !.t = Append(@, [Documents |-> <<>>, Current |-> Nil])],
   t  |-> Len(st.t) + 1]

\* nt.AddDocument(); returns [st, d]
AddDocument(st, nt) ==
  LET d == Len(st.d) + 1
  IN  [st |-> [st EXCEPT !.d = Append(@, NewDocRec),
                         !.t[nt].Documents = Append(@, d),
                         !.t[nt].Current = d],
       d  |-> d]

\* d.SetRoot(node)
SetRoot(st, d, node) ==
  IF node # Nil
    THEN [st EXCEPT !.d[d].Root = node, !.h[node].Parent = Nil]
    ELSE [st EXCEPT !.d[d].Root = node]

\* d.RegisterAnchor(name, node)
RegisterAnchor(st, d, name, node) ==
  [st EXCEPT !.d[d].Anchors = MapPut(@, name, node),
             !.h[node].Anchor = name]

\* d.GetAnchor(name): a missing key reads as nil
GetAnchor(st, d, name) ==
  IF name \in DOMAIN st.d[d].Anchors THEN st.d[d].Anchors[name] ELSE Nil

RECURSIVE mergeDirectives(_, _, _)
\* the loop "Merge directives from overlay" of MergeDocuments
mergeDirectives(merged, dirs, i) ==
  IF i > Len(dirs) THEN merged
  ELSE mergeDirectives(
         IF \E j \in 1..Len(merged) : merged[j].Name = dirs[i].Name
           THEN merged ELSE Append(merged, dirs[i]),
         dirs, i + 1)

\* baseContent / overlayContent of MergeDocuments
contentOf(st, d) ==
  LET root == st.d[d].Root
  IN  IF root # Nil /\ st.h[root].Kind = "DocumentNode"
         /\ Len(st.h[root].Children) > 0
        THEN st.h[root].Children[1]
      ELSE IF root # Nil /\ st.h[root].Kind # "DocumentNode" THEN root
      ELSE Nil

\* map union with b's entries overwriting a's
MapUnion(a, b) ==
  [x \in DOMAIN a \cup DOMAIN b |-> IF x \in DOMAIN b THEN b[x] ELSE a[x]]

\* the one-sided cases of MergeDocuments: a document around a clone of src's root
cloneDoc(st, src) ==
  Let(Clone(st.h, st.d[src].Root), LAMBDA c :
    [st |-> [st EXCEPT !.h = c.h,
                       !.d = Append(@, [Root |-> c.n,
                               Directives |-> st.d[src].Directives,
                               Version |-> st.d[src].Version,
                               Anchors |-> EmptyMap])],
     d  |-> Len(st.d) + 1])

\* MergeDocuments(base, overlay); returns [st, d]
MergeDocuments(st, base, overlay) ==
  IF base = Nil /\ overlay = Nil THEN [st |-> st, d |-> Nil]
  ELSE IF base = Nil THEN cloneDoc(st, overlay)
  ELSE IF overlay = Nil THEN cloneDoc(st, base)
  ELSE
    LET baseContent    == contentOf(st, base)
        overlayContent == contentOf(st, overlay)
        bR   == st.d[base].Root
        oR   == st.d[overlay].Root
        head == IF bR # Nil /\ Len(st.h[bR].HeadComment) > 0
                  THEN st.h[bR].HeadComment
                ELSE IF oR # Nil /\ Len(st.h[oR].HeadComment) > 0
                  THEN st.h[oR].HeadComment
                ELSE <<>>
        doc  == [Root |-> Nil,
                 Directives |-> mergeDirectives(st.d[base].Directives,
                                                st.d[overlay].Directives, 1),
                 Version |-> st.d[base].Version,
                 Anchors |-> MapUnion(st.d[base].Anchors,
                                      st.d[overlay].Anchors)]
    IN  Let(IF baseContent # Nil \/ overlayContent # Nil
              THEN MergeNodes(st.h, baseContent, overlayContent)
              ELSE [h |-> st.h, n |-> Nil], LAMBDA m :
        Let(NewNode(m.h, "DocumentNode"), LAMBDA r :
        Let([r.h EXCEPT ![r.n].HeadComment = head], LAMBDA h1 :
          [st |-> [st EXCEPT
                     !.h = IF m.n # Nil THEN AddChild(h1, r.n, m.n) ELSE h1,
                     !.d = Append(@, [doc EXCEPT !.Root = r.n])],
           d  |-> Len(st.d) + 1])))

\* MergeTrees(base, overlay); returns [st, t]
MergeTrees(st, base, overlay) ==
  IF base = Nil THEN [st |-> st, t |-> overlay]
  ELSE IF overlay = Nil THEN [st |-> st, t |-> base]
  ELSE
    LET nt == NewNodeTree(st)
        bD == st.t[base].Documents
        oD == st.t[overlay].Documents
    IN  IF Len(bD) > 0 /\ Len(oD) > 0
          THEN Let(MergeDocuments(nt.st, bD[1], oD[1]), LAMBDA md :
                 [st |-> [md.st EXCEPT
                            !.t[nt.t].Documents =
                               <<md.d>> \o Tail(bD) \o Tail(oD),
                            !.t[nt.t].Current = md.d],
                  t  |-> nt.t])
        ELSE IF Len(bD) > 0
          THEN [st |-> [nt.st EXCEPT !.t[nt.t].Documents = bD,
                                     !.t[nt.t].Current = bD[1]],
                t  |-> nt.t]
        ELSE IF Len(oD) > 0
          THEN [st |-> [nt.st EXCEPT !.t[nt.t].Documents = oD,
                                     !.t[nt.t].Current = oD[1]],
                t  |-> nt.t]
        ELSE [st |-> nt.st, t |-> nt.t]


(***************************************************************************)
(* DiffNodes / DiffTrees.  A DiffResult keeps Type, Path, the values and   *)
(* the node pointers; OldValue / NewValue hold a Node.Value, a NodeKind, a *)
(* NodeStyle or a tag, each wrapped with its dynamic type.  The two        *)
(* `range` loops over oldKeys and newKeys visit the keys in the order      *)
(* `ord` (Go leaves the order unspecified).                                *)
(***************************************************************************)
DiffEntry(type, path, ov, nv, on, nn) ==
  [Type |-> type, Path |-> path, OldValue |-> ov, NewValue |-> nv,
   OldNode |-> on, NewNode |-> nn]

KindV(k) == [t |-> "NodeKind", s |-> k]
StyleV(x) == [t |-> "NodeStyle", s |-> x]

RECURSIVE keyMapOf(_, _, _, _)
\* the loops "Build key maps": key text -> value node, the last pair wins
keyMapOf(h, n, i, m) ==
  IF i + 1 > Len(h[n].Children) THEN m
  ELSE LET key == h[n].Children[i]
       IN  keyMapOf(h, n, i + 2,
             IF h[key].Kind = "ScalarNode"
               THEN MapPut(m, Render(h[key].Value), h[n].Children[i + 1])
               ELSE m)

\* the keys of map m in iteration order
RangeKeys(m, ord) == SelectSeq(ord, LAMBDA k : k \in DOMAIN m)

\* a variant of the checks below that compares scalar values only
nodeDiffs_valueOnly(h, o, n, path) ==
  IF h[o].Kind = "ScalarNode" /\ Render(h[o].Value) # Render(h[n].Value)
    THEN <<DiffEntry("DiffModified", path, h[o].Value, h[n].Value, o, n)>>
    ELSE <<>>

\* the entries DiffNodes appends before it looks at the children
nodeDiffs(h, o, n, path) ==
  (IF h[o].Kind = "ScalarNode" /\ Render(h[o].Value) # Render(h[n].Value)
     THEN <<DiffEntry("DiffModified", path, h[o].Value, h[n].Value, o, n)>>
     ELSE <<>>)
  \o (IF h[o].Style # h[n].Style
        THEN <<DiffEntry("DiffStyleChanged", path, StyleV(h[o].Style),
                         StyleV(h[n].Style), o, n)>>
        ELSE <<>>)
  \o (IF h[o].HeadComment # h[n].HeadComment
        THEN <<DiffEntry("DiffCommentChanged", path, NilV, NilV, o, n)>>
        ELSE <<>>)
  \o (IF h[o].LineComment # h[n].LineComment
        THEN <<DiffEntry("DiffCommentChanged", path, NilV, NilV, o, n)>>
        ELSE <<>>)
  \o (IF h[o].FootComment # h[n].FootComment
        THEN <<DiffEntry("DiffCommentChanged", path, NilV, NilV, o, n)>>
        ELSE <<>>)
  \o (IF h[o].Tag # h[n].Tag
        THEN <<DiffEntry("DiffModified", path, StrV(h[o].Tag),
                         StrV(h[n].Tag), o, n)>>
        ELSE <<>>)

RECURSIVE DiffNodes(_, _, _, _, _), diffRemovedKeys(_, _, _, _, _, _),
          diffNewKeys(_, _, _, _, _, _, _), diffSeq(_, _, _, _, _, _)

\* DiffNodes(oldNode, newNode, path)
DiffNodes(h, o, n, path, ord) ==
  IF o = Nil /\ n = Nil THEN <<>>
  ELSE IF o = Nil
    THEN <<DiffEntry("DiffAdded", path, NilV, h[n].Value, Nil, n)>>
  ELSE IF n = Nil
    THEN <<DiffEntry("DiffRemoved", path, h[o].Value, NilV, o, Nil)>>
  ELSE IF h[o].Kind # h[n].Kind
    THEN <<DiffEntry("DiffModified", path, KindV(h[o].Kind),
                     KindV(h[n].Kind), o, n)>>
  ELSE
    nodeDiffs(h, o, n, path)
    \o (IF h[o].Kind = "MappingNode"
          THEN Let(keyMapOf(h, o, 1, EmptyMap), LAMBDA oldKeys :
               Let(keyMapOf(h, n, 1, EmptyMap), LAMBDA newKeys :
                 diffRemovedKeys(h, oldKeys, newKeys, path,
                                 RangeKeys(oldKeys, ord), 1)
                 \o diffNewKeys(h, oldKeys, newKeys, path,
                                RangeKeys(newKeys, ord), 1, ord)))
          ELSE <<>>)
    \o (IF h[o].Kind = "SequenceNode"
          THEN diffSeq(h, o, n, path, 1, ord)
          ELSE <<>>)
    \o (IF h[o].Kind = "DocumentNode" /\ Len(h[o].Children) > 0
           /\ Len(h[n].Children) > 0
          THEN DiffNodes(h, h[o].Children[1], h[n].Children[1], path, ord)
          ELSE <<>>)

\* the loop "Check for removed keys"
diffRemovedKeys(h, oldKeys, newKeys, path, keys, i) ==
  IF i > Len(keys) THEN <<>>
  ELSE (IF keys[i] \notin DOMAIN newKeys
          THEN <<DiffEntry("DiffRemoved", path \o "." \o keys[i],
                           h[oldKeys[keys[i]]].Value, NilV,
                           oldKeys[keys[i]], Nil)>>
          ELSE <<>>)
       \o diffRemovedKeys(h, oldKeys, newKeys, path, keys, i + 1)

\* a variant of the loop below with the test for a shared key dropped:
\* every key of the new mapping is reported as added
diffNewKeys_allAdded(h, oldKeys, newKeys, path, keys, i, ord) ==
  IF i > Len(keys) THEN <<>>
  ELSE <<DiffEntry("DiffAdded", path \o "." \o keys[i], NilV,
                   h[newKeys[keys[i]]].Value, Nil, newKeys[keys[i]])>>
       \o diffNewKeys(h, oldKeys, newKeys, path, keys, i + 1, ord)

\* the loop "Check for added or modified keys"
diffNewKeys(h, oldKeys, newKeys, path, keys, i, ord) ==
  IF i > Len(keys) THEN <<>>
  ELSE (IF keys[i] \in DOMAIN oldKeys
          THEN DiffNodes(h, oldKeys[keys[i]], newKeys[keys[i]],
                         path \o "." \o keys[i], ord)
          ELSE <<DiffEntry("DiffAdded", path \o "." \o keys[i], NilV,
                           h[newKeys[keys[i]]].Value, Nil,
                           newKeys[keys[i]])>>)
       \o diffNewKeys(h, oldKeys, newKeys, path, keys, i + 1, ord)

\* the three loops of the sequence case, by index i (1-based)
diffSeq(h, o, n, path, i, ord) ==
  LET oldLen == Len(h[o].Children)
      newLen == Len(h[n].Children)
      minLen == IF newLen < oldLen THEN newLen ELSE oldLen
      childPath == path \o "[" \o ToString(i - 1) \o "]"
  IN  IF i <= minLen
        THEN DiffNodes(h, h[o].Children[i], h[n].Children[i], childPath, ord)
             \o diffSeq(h, o, n, path, i + 1, ord)
      ELSE IF i <= oldLen
        THEN <<DiffEntry("DiffRemoved", childPath,
                         h[h[o].Children[i]].Value, NilV,
                         h[o].Children[i], Nil)>>
             \o diffSeq(h, o, n, path, i + 1, ord)
      ELSE IF i <= newLen
        THEN <<DiffEntry("DiffAdded", childPath, NilV,
                         h[h[n].Children[i]].Value, Nil,
                         h[n].Children[i])>>
             \o diffSeq(h, o, n, path, i + 1, ord)
      ELSE <<>>

RECURSIVE diffDocs(_, _, _, _, _)
\* the loop over document indices of DiffTrees
diffDocs(st, oD, nD, i, ord) ==
  LET maxDocs == IF Len(nD) > Len(oD) THEN Len(nD) ELSE Len(oD)
      docPath == "$[document:" \o ToString(i - 1) \o "]"
  IN  IF i > maxDocs THEN <<>>
      ELSE (IF i > Len(oD)
              THEN <<DiffEntry("DiffAdded", docPath, NilV, NilV, Nil,
                               st.d[nD[i]].Root)>>
            ELSE IF i > Len(nD)
              THEN <<DiffEntry("DiffRemoved", docPath, NilV, NilV,
                               st.d[oD[i]].Root, Nil)>>
            ELSE DiffNodes(st.h, st.d[oD[i]].Root, st.d[nD[i]].Root,
                           docPath, ord))
           \o diffDocs(st, oD, nD, i + 1, ord)

\* DiffTrees(oldTree, newTree)
DiffTrees(st, oldTree, newTree, ord) ==
  IF oldTree = Nil /\ newTree = Nil THEN <<>>
  ELSE IF oldTree = Nil THEN diffDocs(st, <<>>, st.t[newTree].Documents, 1, ord)
  ELSE IF newTree = Nil THEN diffDocs(st, st.t[oldTree].Documents, <<>>, 1, ord)
  ELSE diffDocs(st, st.t[oldTree].Documents, st.t[newTree].Documents, 1, ord)


(***************************************************************************)
(* The merge / diff specification.  Init allocates two input trees, one    *)
(* action per entry point makes one call.                                  *)
(***************************************************************************)
MaxPairs == 2      \* pairs per input mapping
MaxItems == 2      \* items per input sequence
MaxDocs  == 2      \* documents per input tree

Keys == {"a", "b", "c"}

\* every order in which a `range` over a map of these keys may run
KeyOrders ==
  {s \in [1..Cardinality(Keys) -> Keys] : \A k \in Keys : \E i \in DOMAIN s : s[i] = k}

InnerA == Map(<<Sc("a"), Sc("1")>>)
InnerB == Map(<<Sc("b"), WithHead(Sc("2"), <<"# two">>), Sc("c"), Sc("3")>>)

BaseValues == {Sc("1"), WithHead(ScInt("2"), <<"# base">>), InnerA}
OverlayValues ==
  {WithTag(WithStyle(Sc("1"), "DoubleQuotedStyle"), "!!str"), Sc("3"), InnerB}

\* the path arguments given to DiffNodes
Paths == {"$", "$.spec"}

\* sequences of at most n elements of S
SeqsUpTo(S, n) == UNION {[1..k -> S] : k \in 0..n}

\* the children of a mapping: key, value, key, value, ...
PairKids(ps) == [i \in 1..(2 * Len(ps)) |->
                   IF i % 2 = 1 THEN ps[(i + 1) \div 2][1] ELSE ps[i \div 2][2]]

Distinct(s) == \A i, j \in DOMAIN s : i # j => s[i] # s[j]

\* mappings over Keys with values from V; repeated keys only when asked for
MapTerms(V, repeats) ==
  {Map(PairKids(ps)) :
     ps \in {q \in SeqsUpTo({<<Sc(k), v>> : k \in Keys, v \in V}, MaxPairs) :
               repeats \/ Distinct([i \in DOMAIN q |-> q[i][1]])}}

SeqTerms(V) == {SeqT(items) : items \in SeqsUpTo(V, MaxItems)}

BaseTerms ==
  MapTerms(BaseValues, TRUE) \cup SeqTerms({Sc("1"), Sc("2")})
    \cup {WithHead(Sc("base"), <<"# base comment">>), Sc("base"),
          SeqT(<<AliasT("x"), Map(<<Sc("a"), AliasT("x")>>)>>),
          WithFoot(WithLine(WithHead(Sc("base"), <<"# b1", "# b2">>),
                            "base inline"), <<"# base foot">>)}

OverlayTerms ==
  MapTerms(OverlayValues, FALSE) \cup SeqTerms({Sc("1"), Sc("3")})
    \cup {WithLine(Sc("overlay"), "overlay inline"), InnerB,
          WithHead(ScInt("7"), <<"# overlay head">>),
          WithFoot(Sc("overlay"), <<"# o1", "# o2">>)}

\* the terms used when the shape of the trees varies
SmallTerms == {Map(<<Sc("a"), Sc("1")>>), SeqT(<<Sc("1")>>), Sc("1")}

RECURSIVE addDocs(_, _, _, _, _)
\* give tree nt its documents: the first holds `content` (under a Document
\* node when wrap), the others a one-scalar document, as UnmarshalYAML does
addDocs(st, nt, content, wrap, k) ==
  IF k = 0 THEN st
  ELSE
    Let(AddDocument(st, nt), LAMBDA ad :
    Let(IF Len(st.t[nt].Documents) = 0
          THEN [h |-> ad.st.h, n |-> content]
          ELSE NewScalarNode(ad.st.h, StrV("x")), LAMBDA x :
    Let(IF wrap \/ Len(st.t[nt].Documents) > 0
          THEN Let(NewNode(x.h, "DocumentNode"), LAMBDA dn :
                 [h |-> AddChild(dn.h, dn.n, x.n), n |-> dn.n])
          ELSE x, LAMBDA r :
      addDocs(SetRoot([ad.st EXCEPT !.h = r.h], ad.d, r.n), nt, content,
              wrap, k - 1))))

\* directives, version and an anchor for the first document of a tree
dressDoc(st, d, dirs, version, node) ==
  IF d = Nil THEN st
  ELSE RegisterAnchor([st EXCEPT !.d[d].Directives = dirs,
                                 !.d[d].Version = version],
                      d, "x", node)

firstDoc(st, t) ==
  IF Len(st.t[t].Documents) > 0 THEN st.t[t].Documents[1] ELSE Nil

\* the store and the arguments for inputs bt, ot with nb and no documents
Setup(bt, ot, nb, no, wrap) ==
  Let(Build(<<>>, bt, TRUE), LAMBDA b :
  Let(Build(b.h, ot, TRUE), LAMBDA o :
  Let(NewNodeTree([h |-> o.h, d |-> <<>>, t |-> <<>>]), LAMBDA t1 :
  Let(NewNodeTree(addDocs(t1.st, t1.t, b.n, wrap, nb)), LAMBDA t2 :
  Let(addDocs(t2.st, t2.t, o.n, wrap, no), LAMBDA s2 :
    [st |-> dressDoc(
              dressDoc(s2, firstDoc(s2, t1.t),
                       <<[Name |-> "YAML", Value |-> "1.2"]>>, "1.2", b.n),
              firstDoc(s2, t2.t),
              <<[Name |-> "YAML", Value |-> "1.1"],
                [Name |-> "TAG", Value |-> "!e!"]>>, "", o.n),
     in |-> [base |-> b.n, overlay |-> o.n,
             baseDoc |-> firstDoc(s2, t1.t),
             overlayDoc |-> firstDoc(s2, t2.t),
             baseTree |-> t1.t, overlayTree |-> t2.t]])))))

Store == [h |-> heap, d |-> dheap, t |-> theap]

\* the initial store s with the call's arguments
Start(s) ==
  /\ heap = s.st.h
  /\ dheap = s.st.d
  /\ theap = s.st.t
  /\ in = s.in
  /\ out = [op |-> "none"]
  /\ pc = "ready"
  /\ pre = [h |-> <<>>, d |-> <<>>, t |-> <<>>]
  /\ mapOrder = <<>>
  /\ dsl = <<>>

InitMerge ==
  \E bt \in BaseTerms, ot \in OverlayTerms, nb, no \in 0..MaxDocs,
     wrap \in BOOLEAN :
    /\ (nb = 1 /\ no = 1 /\ wrap) \/ (bt \in SmallTerms /\ ot \in SmallTerms)
    /\ Start(Setup(bt, ot, nb, no, wrap))

\* the call returns: the store it left, its result, and the store it found
Return(st, o, name) ==
  /\ heap' = st.h
  /\ dheap' = st.d
  /\ theap' = st.t
  /\ out' = o
  /\ pc' = name
  /\ pre' = Store
  /\ UNCHANGED <<in, dsl>>

ReturnNode(r, name) ==
  Return([Store EXCEPT !.h = r.h], [op |-> name, n |-> r.n], name)

CallMergeNodes ==
  /\ pc = "ready"
  /\ ReturnNode(MergeNodes(heap, in.base, in.overlay), "MergeNodes")
  /\ UNCHANGED mapOrder

ReturnDoc(r, name) == Return(r.st, [op |-> name, d |-> r.d], name)

CallMergeDocuments ==
  /\ pc = "ready"
  /\ ReturnDoc(MergeDocuments(Store, in.baseDoc, in.overlayDoc),
               "MergeDocuments")
  /\ UNCHANGED mapOrder

ReturnTree(r, name) == Return(r.st, [op |-> name, t |-> r.t], name)

CallMergeTrees ==
  /\ pc = "ready"
  /\ ReturnTree(MergeTrees(Store, in.baseTree, in.overlayTree), "MergeTrees")
  /\ UNCHANGED mapOrder

\* the nodes the caller holds: the inputs and the node a merge returned
Held == {in.base, in.overlay} \cup (IF pc = "MergeNodes" THEN {out.n} ELSE {})

\* DiffNodes(base, n, "$") for a held node n
CallDiffNodes ==
  /\ pc \in {"ready", "MergeNodes"}
  /\ \E ord \in KeyOrders, o \in {in.base}, n \in Held, path \in Paths :
       /\ mapOrder' = ord
       /\ Return(Store,
                 [op |-> "DiffNodes", old |-> o, new |-> n, after |-> pc,
                  path |-> path,
                  diffs |-> DiffNodes(heap, o, n, path, ord)],
                 "DiffNodes")

\* DiffTrees(baseTree, y) for an input tree y
CallDiffTrees ==
  /\ pc = "ready"
  /\ \E ord \in KeyOrders, x \in {in.baseTree},
        y \in {in.baseTree, in.overlayTree} :
       /\ mapOrder' = ord
       /\ Return(Store,
                 [op |-> "DiffTrees", old |-> x, new |-> y,
                  diffs |-> DiffTrees(Store, x, y, ord)],
                 "DiffTrees")

NextMerge ==
  \/ CallMergeNodes
  \/ CallMergeDocuments
  \/ CallMergeTrees
  \/ CallDiffNodes
  \/ CallDiffTrees

Spec == InitMerge /\ [][NextMerge]_vars


(***************************************************************************)
(* Properties of MergeNodes / MergeDocuments / MergeTrees.  TermOf reads a *)
(* node back as a term: everything but the pointers Parent, Key and Alias. *)
(***************************************************************************)
RECURSIVE TermOf(_, _)
TermOf(h, n) ==
  [Kind |-> h[n].Kind, Style |-> h[n].Style, Tag |-> h[n].Tag,
   Value |-> h[n].Value, Anchor |-> h[n].Anchor,
   HeadComment |-> h[n].HeadComment, LineComment |-> h[n].LineComment,
   FootComment |-> h[n].FootComment,
   Kids |-> [i \in 1..Len(h[n].Children) |-> TermOf(h, h[n].Children[i])]]

NumPairs(h, n) == Len(h[n].Children) \div 2
KeyOf(h, n, i) == h[n].Children[2 * i - 1]
ValueOf(h, n, i) == h[n].Children[2 * i]
KeyText(h, n, i) == Render(h[KeyOf(h, n, i)].Value)

\* a Mapping whose keys are scalars with pairwise distinct rendered text
DistinctScalarKeys(h, n) ==
  /\ h[n].Kind = "MappingNode"
  /\ Len(h[n].Children) % 2 = 0
  /\ \A i \in 1..NumPairs(h, n) : h[KeyOf(h, n, i)].Kind = "ScalarNode"
  /\ \A i, j \in 1..NumPairs(h, n) :
       i # j => KeyText(h, n, i) # KeyText(h, n, j)

HasKey(h, n, k) == \E i \in 1..NumPairs(h, n) : KeyText(h, n, i) = k
PairOf(h, n, k) == CHOOSE i \in 1..NumPairs(h, n) : KeyText(h, n, i) = k

\* the pairs of overlay whose key base does not have, in overlay's order
OverlayOnly(h, base, overlay) ==
  SelectSeq([i \in 1..NumPairs(h, overlay) |-> i],
            LAMBDA i : ~HasKey(h, base, KeyText(h, overlay, i)))

\* the value term the union has for base's i-th pair
UnionValue(h, base, overlay, i) ==
  LET k  == KeyText(h, base, i)
      bv == ValueOf(h, base, i)
  IN  IF ~HasKey(h, overlay, k) THEN TermOf(h, bv)
      ELSE LET ov == ValueOf(h, overlay, PairOf(h, overlay, k))
           IN  IF h[bv].Kind = "MappingNode" /\ h[ov].Kind = "MappingNode"
                 THEN LET m == MergeNodes(h, bv, ov) IN TermOf(m.h, m.n)
                 ELSE TermOf(h, ov)

MergedMappings ==
  /\ pc = "MergeNodes"
  /\ DistinctScalarKeys(pre.h, in.base)
  /\ DistinctScalarKeys(pre.h, in.overlay)

SharedCommented(i) ==
  LET h == pre.h
      k == KeyText(h, in.base, i)
  IN  /\ HasKey(h, in.overlay, k)
      /\ h[ValueOf(h, in.base, i)].Kind = "ScalarNode"
      /\ h[ValueOf(h, in.overlay, PairOf(h, in.overlay, k))].Kind
           = "ScalarNode"
      /\ Len(h[ValueOf(h, in.base, i)].HeadComment) > 0
      /\ Len(h[ValueOf(h, in.overlay, PairOf(h, in.overlay, k))].HeadComment)
           = 0

\* C2: when MergeNodes merges two Mappings that share a key whose values are
\* both scalars, base's with a head comment and overlay's without, the
\* merged value node for the key has overlay's value and base's head comment
C2_BaseHeadCommentKept ==
  MergedMappings =>
    \A i \in 1..NumPairs(pre.h, in.base) :
      SharedCommented(i) =>
        LET h  == pre.h
            ov == ValueOf(h, in.overlay,
                          PairOf(h, in.overlay, KeyText(h, in.base, i)))
            rv == ValueOf(heap, out.n, i)
        IN  /\ heap[rv].Value = h[ov].Value
            /\ heap[rv].HeadComment = h[ValueOf(h, in.base, i)].HeadComment

\* C3: MergeNodes, MergeDocuments and MergeTrees leave every node, document
\* and tree that existed before the call as it was
C3_InputsUntouched ==
  pc \in {"MergeNodes", "MergeDocuments", "MergeTrees"} =>
    /\ SubSeq(heap, 1, Len(pre.h)) = pre.h
    /\ SubSeq(dheap, 1, Len(pre.d)) = pre.d
    /\ SubSeq(theap, 1, Len(pre.t)) = pre.t

\* MergeTrees merged two first documents into newly allocated nodes
C3_Witness ==
  /\ pc = "MergeTrees"
  /\ Len(pre.t[in.baseTree].Documents) > 0
  /\ Len(pre.t[in.overlayTree].Documents) > 0
  /\ Len(heap) > Len(pre.h)
  /\ Len(dheap) > Len(pre.d)

MergedSequences ==
  /\ pc = "MergeNodes"
  /\ pre.h[in.base].Kind = "SequenceNode"
  /\ pre.h[in.overlay].Kind = "SequenceNode"

\* C7: MergeNodes of two Sequences is a Sequence of clones of base's items
\* followed by clones of overlay's items, nothing deduplicated
C7_Concatenation ==
  MergedSequences =>
    LET b == pre.h[in.base].Children
        o == pre.h[in.overlay].Children
        r == heap[out.n].Children
    IN  /\ heap[out.n].Kind = "SequenceNode"
        /\ Len(r) = Len(b) + Len(o)
        /\ \A i \in 1..Len(b) :
             r[i] > Len(pre.h) /\ TermOf(heap, r[i]) = TermOf(pre.h, b[i])
        /\ \A i \in 1..Len(o) :
             /\ r[Len(b) + i] > Len(pre.h)
             /\ TermOf(heap, r[Len(b) + i]) = TermOf(pre.h, o[i])

\* two non-empty sequences with an item of the same rendered value in both
C7_Witness ==
  /\ MergedSequences
  /\ \E i \in 1..Len(pre.h[in.base].Children),
        j \in 1..Len(pre.h[in.overlay].Children) :
       TermOf(pre.h, pre.h[in.base].Children[i])
         = TermOf(pre.h, pre.h[in.overlay].Children[j])


(***************************************************************************)
(* Properties of DiffNodes / DiffTrees                                     *)
(***************************************************************************)
\* C4: DiffNodes(n, n, p) and DiffTrees(t, t) return no entries
C4_SelfDiffEmpty ==
  (pc \in {"DiffNodes", "DiffTrees"} /\ out.old = out.new) => out.diffs = <<>>

\* a self-diff of a mapping with a repeated key and a commented value
C4_Witness ==
  /\ pc = "DiffNodes" /\ out.old = out.new
  /\ heap[out.old].Kind = "MappingNode"
  /\ \E i, j \in 1..NumPairs(heap, out.old) :
       i # j /\ KeyText(heap, out.old, i) = KeyText(heap, out.old, j)
  /\ \E i \in 1..NumPairs(heap, out.old) :
       Len(heap[ValueOf(heap, out.old, i)].HeadComment) > 0

\* DiffNodes(base, MergeNodes(base, overlay), p) for Mappings with distinct
\* scalar keys, scalar values and no comments
RECURSIVE NoComments(_, _)
NoComments(h, n) ==
  /\ h[n].HeadComment = <<>> /\ h[n].LineComment = "" /\ h[n].FootComment = <<>>
  /\ \A i \in 1..Len(h[n].Children) : NoComments(h, h[n].Children[i])

ScalarValues(h, n) ==
  \A i \in 1..NumPairs(h, n) : h[ValueOf(h, n, i)].Kind = "ScalarNode"

DiffedMerge ==
  /\ pc = "DiffNodes" /\ out.after = "MergeNodes"
  /\ out.old = in.base /\ out.new \notin {in.base, in.overlay}
  /\ DistinctScalarKeys(heap, in.base) /\ DistinctScalarKeys(heap, in.overlay)
  /\ ScalarValues(heap, in.base) /\ ScalarValues(heap, in.overlay)
  /\ NoComments(heap, in.base) /\ NoComments(heap, in.overlay)

Count(diffs, P(_)) == Cardinality({i \in DOMAIN diffs : P(diffs[i])})

\* the keys overlay has and base has not
AddedKeys ==
  {KeyText(heap, in.overlay, i) : i \in 1..NumPairs(heap, in.overlay)}
    \ {KeyText(heap, in.base, i) : i \in 1..NumPairs(heap, in.base)}

\* the pairs <<i, j>>: base's i-th key is overlay's j-th key
SharedPairs ==
  {ij \in (1..NumPairs(heap, in.base)) \X (1..NumPairs(heap, in.overlay)) :
     KeyText(heap, in.base, ij[1]) = KeyText(heap, in.overlay, ij[2])}

BaseV(ij) == heap[ValueOf(heap, in.base, ij[1])]
OverV(ij) == heap[ValueOf(heap, in.overlay, ij[2])]
PathTo(ij) == out.path \o "." \o KeyText(heap, in.base, ij[1])

ValueChanged == {ij \in SharedPairs : Render(BaseV(ij).Value) # Render(OverV(ij).Value)}
StyleChanged == {ij \in SharedPairs : BaseV(ij).Style # OverV(ij).Style}
TagChanged   == {ij \in SharedPairs : BaseV(ij).Tag # OverV(ij).Tag}

\* one Added entry per overlay-only key and one Modified entry, with base's
\* and overlay's value, per shared key whose rendered values differ
AddedAndModified ==
  /\ \A k \in AddedKeys :
       Count(out.diffs, LAMBDA e : e.Type = "DiffAdded"
                                   /\ e.Path = out.path \o "." \o k) = 1
  /\ \A ij \in ValueChanged :
       Count(out.diffs, LAMBDA e : /\ e.Type = "DiffModified"
                                   /\ e.Path = PathTo(ij)
                                   /\ e.OldValue = BaseV(ij).Value
                                   /\ e.NewValue = OverV(ij).Value) = 1
  /\ \A e \in {out.diffs[i] : i \in DOMAIN out.diffs} :
       e.Type # "DiffRemoved"

\* C5 as stated: these entries and no other
C5_ExactlyAddedAndModified ==
  DiffedMerge =>
    /\ AddedAndModified
    /\ Len(out.diffs) = Cardinality(AddedKeys) + Cardinality(ValueChanged)

\* C5, amended: these entries, one StyleChanged entry per shared key whose
\* value styles differ, one Modified entry carrying the two tags per shared
\* key whose value tags differ, and no other
C5_AddedModifiedStyleTag ==
  DiffedMerge =>
    /\ AddedAndModified
    /\ \A ij \in StyleChanged :
         Count(out.diffs, LAMBDA e : /\ e.Type = "DiffStyleChanged"
                                     /\ e.Path = PathTo(ij)) = 1
    /\ \A ij \in TagChanged :
         Count(out.diffs, LAMBDA e : /\ e.Type = "DiffModified"
                                     /\ e.Path = PathTo(ij)
                                     /\ e.OldValue = StrV(BaseV(ij).Tag)
                                     /\ e.NewValue = StrV(OverV(ij).Tag)) = 1
    /\ Len(out.diffs) = Cardinality(AddedKeys) + Cardinality(ValueChanged)
                          + Cardinality(StyleChanged) + Cardinality(TagChanged)

\* a shared key whose values differ in text and a shared key whose values
\* differ in style and tag
C5_Witness ==
  /\ DiffedMerge
  /\ ValueChanged # {}
  /\ StyleChanged # {}
  /\ TagChanged # {}


(***************************************************************************)
(* TransformDSL (advanced.go).  A Transform is a record: its name and the  *)
(* values its closure captured.  TLA+ strings cannot be taken apart, so    *)
(* Go's string order and strings.ToUpper are tables over the strings that  *)
(* occur as keys and values here.                                          *)
(***************************************************************************)
\* the strings of the model in Go's (bytewise) order
SortedStrings ==
  <<"1", "2", "<nil>", "A", "A.A", "A.X", "A.Y", "V", "X", "X.A",
    "X.X", "X.Y", "Y", "Y.A", "Y.X", "Y.Y", "a", "a.a", "a.x", "a.y", "v",
    "x", "x.a", "x.x", "x.y", "y", "y.a", "y.x", "y.y">>

StrRank(s) == CHOOSE i \in DOMAIN SortedStrings : SortedStrings[i] = s

\* key1 > key2 on Go strings
StrGreater(a, b) == StrRank(a) > StrRank(b)

\* strings.ToUpper
ToUpper(s) ==
  CASE s = "<nil>" -> "<NIL>"
    [] s = "a" -> "A"
    [] s = "a.a" -> "A.A"
    [] s = "a.x" -> "A.X"
    [] s = "a.y" -> "A.Y"
    [] s = "v" -> "V"
    [] s = "x" -> "X"
    [] s = "x.a" -> "X.A"
    [] s = "x.x" -> "X.X"
    [] s = "x.y" -> "X.Y"
    [] s = "y" -> "Y"
    [] s = "y.a" -> "Y.A"
    [] s = "y.x" -> "Y.X"
    [] s = "y.y" -> "Y.Y"
    [] OTHER -> s

\* dsl.Select(predicate), dsl.Map(fn), ... : the Transform each one appends
SelectT(p) == [name |-> "select", pred |-> p]
MapT(f) == [name |-> "map", fn |-> f]
SetValueT(v) == [name |-> "setValue", value |-> v]
AddCommentT(c) == [name |-> "addComment", comment |-> c]
RemoveKeyT(k) == [name |-> "removeKey", key |-> k]
RenameKeyT(o, n) == [name |-> "renameKey", oldKey |-> o, newKey |-> n]
SortKeysT == [name |-> "sortKeys"]
FlattenT == [name |-> "flatten"]

\* the predicates given to Select: the one of the tests (the pair's key is
\* a given string) and one on the node's own value
Predicate(p, h, n) ==
  CASE p = "keyIsX" ->
         h[n].Key # Nil /\ h[h[n].Key].Value = StrV("x")
    [] p = "isOne" ->
         h[n].Kind = "ScalarNode" /\ Render(h[n].Value) = "1"

RECURSIVE selectNode(_, _, _), selectPairs(_, _, _, _, _)
\* selectNode(node, predicate); returns [h, n], the error is always nil
selectNode(h, node, p) ==
  IF node = Nil THEN [h |-> h, n |-> Nil]
  ELSE IF h[node].Kind = "DocumentNode"
    THEN IF Len(h[node].Children) > 0
           THEN Let(selectNode(h, h[node].Children[1], p), LAMBDA f :
                  IF f.n # Nil
                    THEN Let(Clone(f.h, node), LAMBDA r :
                           [h |-> [r.h EXCEPT ![r.n].Children = <<f.n>>],
                            n |-> r.n])
                    ELSE [h |-> f.h, n |-> Nil])
           ELSE [h |-> h, n |-> Nil]
  ELSE IF h[node].Kind = "MappingNode"
    THEN Let(selectPairs(h, node, p, 1, <<>>), LAMBDA s :
           IF Len(s.kids) > 0
             THEN Let(Clone(s.h, node), LAMBDA r :
                    [h |-> [r.h EXCEPT ![r.n].Children = s.kids], n |-> r.n])
             ELSE [h |-> s.h, n |-> Nil])
  ELSE IF Predicate(p, h, node) THEN [h |-> h, n |-> node]
  ELSE [h |-> h, n |-> Nil]

\* the loop over the pairs of a mapping, from h with valueNode.Key already
\* set to keyNode for the pair at i; returns [h, kids]
selectPair(h, node, p, i, newChildren, keyNode, valueNode) ==
  IF Predicate(p, h, valueNode)
    THEN selectPairs(h, node, p, i + 2,
                     newChildren \o <<keyNode, valueNode>>)
  ELSE IF h[valueNode].Kind = "MappingNode"
    THEN Let(selectNode(h, valueNode, p), LAMBDA f :
           selectPairs(f.h, node, p, i + 2,
                       IF f.n # Nil /\ Len(f.h[f.n].Children) > 0
                         THEN newChildren \o <<keyNode, f.n>>
                         ELSE newChildren))
  ELSE selectPairs(h, node, p, i + 2, newChildren)

selectPairs(h, node, p, i, newChildren) ==
  IF i + 1 > Len(h[node].Children)
    THEN [h |-> h, kids |-> newChildren]
    ELSE selectPair([h EXCEPT ![h[node].Children[i + 1]].Key =
                                 h[node].Children[i]],
                    node, p, i, newChildren,
                    h[node].Children[i], h[node].Children[i + 1])


\* the functions given to Map: the one of the tests (upper-case every
\* string scalar) and one that filters a node out by returning nil
MapFn(f, h, node) ==
  CASE f = "upper" ->
         IF h[node].Kind = "ScalarNode" /\ h[node].Value.t = "string"
           THEN [h |-> [h EXCEPT ![node].Value = StrV(ToUpper(@.s))],
                 n |-> node]
           ELSE [h |-> h, n |-> node]
    [] f = "dropOnes" ->
         IF h[node].Kind = "ScalarNode" /\ Render(h[node].Value) = "1"
           THEN [h |-> h, n |-> Nil]
           ELSE [h |-> h, n |-> node]

\* the operation of SetValue(value)
SetValue(h, node, value) ==
  [h |-> IF h[node].Kind = "ScalarNode"
           THEN [h EXCEPT ![node].Value = value] ELSE h,
   n |-> node]

\* the operation of AddComment(comment)
AddComment(h, node, comment) ==
  [h |-> [h EXCEPT ![node].HeadComment = Append(@, comment)], n |-> node]

RECURSIVE keptPairs(_, _, _, _)
\* the loop of RemoveKey: the pairs whose key is not the scalar `key`
keptPairs(h, kids, key, i) ==
  IF i + 1 > Len(kids) THEN <<>>
  ELSE (IF h[kids[i]].Kind # "ScalarNode" \/ Render(h[kids[i]].Value) # key
          THEN <<kids[i], kids[i + 1]>> ELSE <<>>)
       \o keptPairs(h, kids, key, i + 2)

\* the operation of RemoveKey(key)
RemoveKey(h, node, key) ==
  [h |-> IF h[node].Kind = "MappingNode"
           THEN [h EXCEPT ![node].Children = keptPairs(h, @, key, 1)]
           ELSE h,
   n |-> node]

RECURSIVE renameFirst(_, _, _, _, _)
\* the loop of RenameKey: the first pair whose key is oldKey, then break
renameFirst(h, kids, oldKey, newKey, i) ==
  IF i + 1 > Len(kids) THEN h
  ELSE IF h[kids[i]].Kind = "ScalarNode" /\ Render(h[kids[i]].Value) = oldKey
    THEN [h EXCEPT ![kids[i]].Value = StrV(newKey)]
  ELSE renameFirst(h, kids, oldKey, newKey, i + 2)

\* the operation of RenameKey(oldKey, newKey)
RenameKey(h, node, oldKey, newKey) ==
  [h |-> IF h[node].Kind = "MappingNode"
           THEN renameFirst(h, h[node].Children, oldKey, newKey, 1)
           ELSE h,
   n |-> node]

\* pairs of a mapping as <<key, value>> tuples; a trailing odd child is left out
pairsOf(kids) == [i \in 1..(Len(kids) \div 2) |-> <<kids[2 * i - 1], kids[2 * i]>>]

swap(pairs, i, j) == [pairs EXCEPT ![i] = pairs[j], ![j] = pairs[i]]

RECURSIVE sortPairs(_, _, _, _)
\* the two nested loops of SortKeys: i, and j from i + 1, swapping when
\* pairs[i]'s key is greater
sortPairs(h, pairs, i, j) ==
  IF i > Len(pairs) THEN pairs
  ELSE IF j > Len(pairs) THEN sortPairs(h, pairs, i + 1, i + 2)
  ELSE sortPairs(h,
         IF StrGreater(Render(h[pairs[i][1]].Value),
                       Render(h[pairs[j][1]].Value))
           THEN swap(pairs, i, j) ELSE pairs,
         i, j + 1)

\* "Rebuild children"
flatPairs(pairs) == [i \in 1..(2 * Len(pairs)) |->
                       pairs[(i + 1) \div 2][IF i % 2 = 1 THEN 1 ELSE 2]]

\* the operation of SortKeys()
SortKeys(h, node) ==
  [h |-> IF h[node].Kind = "MappingNode"
           THEN [h EXCEPT ![node].Children =
                             flatPairs(sortPairs(h, pairsOf(@), 1, 2))]
           ELSE h,
   n |-> node]

RECURSIVE flattenRecursive(_, _, _, _), flattenPairs(_, _, _, _, _)
\* flattenRecursive(node, prefix, result); returns the map
flattenRecursive(h, node, prefix, result) ==
  IF h[node].Kind # "MappingNode"
    THEN IF prefix # "" THEN MapPut(result, prefix, node) ELSE result
    ELSE flattenPairs(h, node, prefix, result, 1)

flattenPairs(h, node, prefix, result, i) ==
  IF i + 1 > Len(h[node].Children) THEN result
  ELSE
    LET keyNode   == h[node].Children[i]
        valueNode == h[node].Children[i + 1]
        key       == Render(h[keyNode].Value)
        newPrefix == IF prefix # "" THEN prefix \o "." \o key ELSE key
    IN  flattenPairs(h, node, prefix,
          IF h[keyNode].Kind # "ScalarNode" THEN result
          ELSE IF h[valueNode].Kind = "MappingNode"
            THEN flattenRecursive(h, valueNode, newPrefix, result)
            ELSE MapPut(result, newPrefix, valueNode),
          i + 2)

\* the keys of flatMap in the order `range` visits them: the ord-th
\* permutation of the keys
FlatKeys(flatMap, ord) ==
  LET ks == SelectSeq(SortedStrings, LAMBDA k : k \in DOMAIN flatMap)
  IN  [i \in 1..Len(ks) |->
         ks[SelectSeq(ord, LAMBDA j : j <= Len(ks))[i]]]

RECURSIVE addFlat(_, _, _, _, _)
\* the loop "Create new flat mapping"
addFlat(h, newNode, flatMap, keys, i) ==
  IF i > Len(keys) THEN h
  ELSE Let(NewScalarNode(h, StrV(keys[i])), LAMBDA k :
         addFlat(AddKeyValue(k.h, newNode, k.n, flatMap[keys[i]]),
                 newNode, flatMap, keys, i + 1))

\* the operation of Flatten()
Flatten(h, node, ord) ==
  IF h[node].Kind # "MappingNode" THEN [h |-> h, n |-> node]
  ELSE Let(flattenRecursive(h, node, "", EmptyMap), LAMBDA flatMap :
       Let(NewNode(h, "MappingNode"), LAMBDA r :
         [h |-> addFlat(r.h, r.n, flatMap, FlatKeys(flatMap, ord), 1),
          n |-> r.n]))

\* transform.operation(node); returns [h, n] (no operation returns an error)
Operation(h, tr, node, ord) ==
  CASE tr.name = "select"     -> selectNode(h, node, tr.pred)
    [] tr.name = "map"        -> MapFn(tr.fn, h, node)
    [] tr.name = "setValue"   -> SetValue(h, node, tr.value)
    [] tr.name = "addComment" -> AddComment(h, node, tr.comment)
    [] tr.name = "removeKey"  -> RemoveKey(h, node, tr.key)
    [] tr.name = "renameKey"  -> RenameKey(h, node, tr.oldKey, tr.newKey)
    [] tr.name = "sortKeys"   -> SortKeys(h, node)
    [] tr.name = "flatten"    -> Flatten(h, node, ord)


\* the first transform named "select", or 0
FirstSelect(transforms) ==
  IF \E i \in DOMAIN transforms : transforms[i].name = "select"
    THEN CHOOSE i \in DOMAIN transforms :
           /\ transforms[i].name = "select"
           /\ \A j \in 1..(i - 1) : transforms[j].name # "select"
    ELSE 0

\* the frames of applyToNode a goroutine stack holds: Go ends the program
\* with "fatal error: stack overflow" when the recursion goes deeper
MaxStack == 5

RECURSIVE applyToNode(_, _, _, _, _), runTransforms(_, _, _, _, _),
          applyToChildren(_, _, _, _, _, _, _)

\* a variant of applyToNode without the special handling of Select
applyToNode_noSpecial(h, transforms, node, ord, depth) ==
  IF node = Nil THEN [h |-> h, n |-> Nil, err |-> ""]
  ELSE IF depth > MaxStack
    THEN [h |-> h, n |-> Nil, err |-> "stack overflow"]
  ELSE
    Let(Clone(h, node), LAMBDA c :
    Let(runTransforms(c.h, transforms, 1, c.n, ord), LAMBDA r :
      IF r.n = Nil THEN [h |-> r.h, n |-> Nil, err |-> ""]
      ELSE IF r.h[r.n].Kind \in {"MappingNode", "SequenceNode", "DocumentNode"}
        THEN Let(applyToChildren(r.h, transforms, r.h[r.n].Children, 1, <<>>,
                                 ord, depth + 1),
                 LAMBDA k :
                   IF k.err # "" THEN [h |-> k.h, n |-> Nil, err |-> k.err]
                   ELSE [h |-> [k.h EXCEPT ![r.n].Children = k.kids],
                         n |-> r.n, err |-> ""])
      ELSE [h |-> r.h, n |-> r.n, err |-> ""]))

\* dsl.applyToNode(node), called with `depth` frames of it on the stack;
\* returns [h, n, err] (no operation returns an error; the only err is the
\* runtime's stack overflow)
applyToNode(h, transforms, node, ord, depth) ==
  IF node = Nil THEN [h |-> h, n |-> Nil, err |-> ""]
  ELSE IF depth > MaxStack
    THEN [h |-> h, n |-> Nil, err |-> "stack overflow"]
  ELSE IF FirstSelect(transforms) # 0
    THEN Let(Operation(h, transforms[FirstSelect(transforms)], node, ord),
             LAMBDA s : [h |-> s.h, n |-> s.n, err |-> ""])
  ELSE
    Let(Clone(h, node), LAMBDA c :
    Let(runTransforms(c.h, transforms, 1, c.n, ord), LAMBDA r :
      IF r.n = Nil THEN [h |-> r.h, n |-> Nil, err |-> ""]
      ELSE IF r.h[r.n].Kind \in {"MappingNode", "SequenceNode", "DocumentNode"}
        THEN Let(applyToChildren(r.h, transforms, r.h[r.n].Children, 1, <<>>,
                                 ord, depth + 1),
                 LAMBDA k :
                   IF k.err # "" THEN [h |-> k.h, n |-> Nil, err |-> k.err]
                   ELSE [h |-> [k.h EXCEPT ![r.n].Children = k.kids],
                         n |-> r.n, err |-> ""])
      ELSE [h |-> r.h, n |-> r.n, err |-> ""]))

\* a variant of the loop below that runs the transforms last to first
runTransforms_reversed(h, transforms, i, result, ord) ==
  IF i > Len(transforms) THEN [h |-> h, n |-> result]
  ELSE Let(Operation(h, transforms[Len(transforms) + 1 - i], result, ord),
           LAMBDA r :
             IF r.n = Nil THEN r
             ELSE runTransforms(r.h, transforms, i + 1, r.n, ord))

\* the loop over dsl.transforms: stops when a node is filtered out
runTransforms(h, transforms, i, result, ord) ==
  IF i > Len(transforms) THEN [h |-> h, n |-> result]
  ELSE Let(Operation(h, transforms[i], result, ord), LAMBDA r :
         IF r.n = Nil THEN r
         ELSE runTransforms(r.h, transforms, i + 1, r.n, ord))

\* the loop "Apply transformations to children recursively"; returns
\* [h, kids, err]
applyToChildren(h, transforms, kids, i, newChildren, ord, depth) ==
  IF i > Len(kids) THEN [h |-> h, kids |-> newChildren, err |-> ""]
  ELSE Let(applyToNode(h, transforms, kids[i], ord, depth), LAMBDA c :
         IF c.err # "" THEN [h |-> c.h, kids |-> newChildren, err |-> c.err]
         ELSE applyToChildren(c.h, transforms, kids, i + 1,
                              IF c.n # Nil THEN Append(newChildren, c.n)
                              ELSE newChildren,
                              ord, depth))

RECURSIVE applyDocs(_, _, _, _, _, _)
\* the loop over tree.Documents of Apply; returns [st, t, err]
applyDocs(st, transforms, docs, i, resultTree, ord) ==
  IF i > Len(docs) THEN [st |-> st, t |-> resultTree, err |-> ""]
  ELSE IF docs[i] = Nil
    THEN [st |-> st, t |-> Nil, err |-> "tree contains nil document"]
  ELSE
    Let(IF st.d[docs[i]].Root # Nil
          THEN applyToNode(st.h, transforms, st.d[docs[i]].Root, ord, 1)
          ELSE [h |-> st.h, n |-> Nil, err |-> ""],
        LAMBDA r :
          IF r.err # ""
            THEN [st |-> [st EXCEPT !.h = r.h], t |-> Nil, err |-> r.err]
          ELSE
          applyDocs([st EXCEPT
                       !.h = r.h,
                       !.d = Append(@, [Root |-> r.n,
                                Directives |-> st.d[docs[i]].Directives,
                                Version |-> st.d[docs[i]].Version,
                                Anchors |-> EmptyMap]),
                       !.t[resultTree].Documents = Append(@, Len(st.d) + 1),
                       !.t[resultTree].Current = Len(st.d) + 1],
                    transforms, docs, i + 1, resultTree, ord))

\* dsl.Apply(tree); returns [st, t, err].  dsl.errors is never appended to,
\* so its test cannot fail
Apply(st, transforms, tree, ord) ==
  IF tree = Nil THEN [st |-> st, t |-> Nil, err |-> "tree is nil"]
  ELSE IF Len(st.t[tree].Documents) = 0
    THEN [st |-> st, t |-> tree, err |-> ""]
  ELSE Let(NewNodeTree(st), LAMBDA nt :
         applyDocs(nt.st, transforms, st.t[tree].Documents, 1, nt.t, ord))


(***************************************************************************)
(* The TransformDSL specification: a pipeline is built call by call on an  *)
(* input tree, then applied.                                               *)
(***************************************************************************)
MaxOps    == 3     \* operations queued in a pipeline
MaxLeaves == 3     \* entries of a flattened mapping

\* the orders in which `range` may visit a map of at most MaxLeaves keys
FlatOrders ==
  {f \in [1..MaxLeaves -> 1..MaxLeaves] :
     \A i, j \in 1..MaxLeaves : i # j => f[i] # f[j]}

DslTerms ==
  {Map(<<Sc("x"), Sc("1"), Sc("a"), Sc("2")>>),
   Map(<<Sc("x"), Map(<<Sc("x"), Sc("1")>>), Sc("a"), Sc("2")>>),
   Map(<<Sc("x"), Sc("1"), Sc("x"), Sc("2")>>),
   Map(<<Sc("x"), Sc("1"), Sc("x"), Map(<<Sc("x"), Sc("2")>>)>>),
   Map(<<Sc("a"), Map(<<Sc("x"), Sc("1")>>), Sc("y"), Sc("2")>>),
   Map(<<Sc("a"), SeqT(<<Map(<<Sc("x"), Sc("1")>>), Sc("2")>>)>>),
   Map(<<Sc("y"), WithHead(Sc("1"), <<"# one">>), Sc("x"), Sc("2")>>),
   Map(<<Sc("y"), Sc("2"), Sc("a"), Sc("1")>>),
   SeqT(<<Sc("1"), Sc("2")>>),
   Sc("1")}

\* the terms used when the shape of the tree varies
SmallDslTerms == {Map(<<Sc("x"), Sc("1"), Sc("a"), Sc("2")>>), Sc("1")}

TreeShapes == {"nil", "empty", "one", "two", "nilDocument"}

\* the input tree: `term` as the root of the first document
SetupDSL(term, kv, wrap, shape) ==
  Let(Build(<<>>, term, kv), LAMBDA b :
  Let(NewNodeTree([h |-> b.h, d |-> <<>>, t |-> <<>>]), LAMBDA t1 :
  Let(addDocs(t1.st, t1.t, b.n, wrap,
              CASE shape \in {"nil", "empty"} -> 0
                [] shape \in {"one", "nilDocument"} -> 1
                [] shape = "two" -> 2),
      LAMBDA s1 :
        [st |-> IF shape = "nilDocument"
                  THEN [s1 EXCEPT !.t[t1.t].Documents = Append(@, Nil)]
                  ELSE s1,
         in |-> [tree |-> IF shape = "nil" THEN Nil ELSE t1.t,
                 root |-> b.n, kv |-> kv]])))

InitDSL ==
  \E term \in DslTerms, kv, wrap \in BOOLEAN, shape \in TreeShapes :
    /\ shape = "one" \/ (kv /\ wrap /\ term \in SmallDslTerms)
    /\ Start(SetupDSL(term, kv, wrap, shape))

\* a builder call appends its Transform
Queue(tr) ==
  /\ pc = "ready"
  /\ Len(dsl) < MaxOps
  /\ dsl' = Append(dsl, tr)
  /\ UNCHANGED <<heap, dheap, theap, in, out, pc, pre, mapOrder>>

CallSelect == \E p \in {"keyIsX", "isOne"} : Queue(SelectT(p))

CallMap == \E f \in {"upper", "dropOnes"} : Queue(MapT(f))

CallSetValue == Queue(SetValueT(StrV("v")))

CallAddComment == Queue(AddCommentT("# c"))

CallRemoveKey == Queue(RemoveKeyT("x"))

CallRenameKey == \E newKey \in {"x", "y"} : Queue(RenameKeyT("x", newKey))

CallSortKeys == Queue(SortKeysT)

CallFlatten == Queue(FlattenT)

ReturnApply(r) ==
  /\ heap' = r.st.h
  /\ dheap' = r.st.d
  /\ theap' = r.st.t
  /\ out' = [op |-> "Apply", t |-> r.t, err |-> r.err]
  /\ pc' = "Apply"
  /\ pre' = Store
  /\ UNCHANGED <<in, dsl, mapOrder>>

\* `range` runs only in Flatten, which runs only in a pipeline without
\* Select: elsewhere one order stands for all
OrdersFor(transforms) ==
  IF /\ \E i \in DOMAIN transforms : transforms[i].name = "flatten"
     /\ FirstSelect(transforms) = 0
    THEN FlatOrders
    ELSE {[i \in 1..MaxLeaves |-> i]}

CallApply ==
  /\ pc = "ready"
  /\ \E ord \in OrdersFor(dsl) : ReturnApply(Apply(Store, dsl, in.tree, ord))

NextDSL ==
  \/ CallSelect
  \/ CallMap
  \/ CallSetValue
  \/ CallAddComment
  \/ CallRemoveKey
  \/ CallRenameKey
  \/ CallSortKeys
  \/ CallFlatten
  \/ CallApply

SpecDSL == InitDSL /\ [][NextDSL]_vars


(***************************************************************************)
(* Properties of TransformDSL.Apply                                        *)
(***************************************************************************)
Applied == pc = "Apply" /\ out.err = "" /\ in.tree # Nil

\* the roots of the input documents and of the documents Apply returned
InRoots == [i \in 1..Len(pre.t[in.tree].Documents) |->
              pre.d[pre.t[in.tree].Documents[i]].Root]
OutRoots == [i \in 1..Len(theap[out.t].Documents) |->
               dheap[theap[out.t].Documents[i]].Root]

TermOrNil(h, n) == IF n = Nil THEN [Kind |-> "nil"] ELSE TermOf(h, n)

\* terms of mappings: pairs, keys, values
TPairs(t) == Len(t.Kids) \div 2
TKey(t, i) == t.Kids[2 * i - 1]
TVal(t, i) == t.Kids[2 * i]
IsKey(t, k) == t.Kind = "ScalarNode" /\ Render(t.Value) = k
TContains(t, k) ==
  t.Kind = "MappingNode" /\ \E i \in 1..TPairs(t) : IsKey(TKey(t, i), k)
TCount(t, k) == Cardinality({i \in 1..TPairs(t) : IsKey(TKey(t, i), k)})
TFirst(t, k) ==
  CHOOSE i \in 1..TPairs(t) :
    IsKey(TKey(t, i), k) /\ \A j \in 1..(i - 1) : ~IsKey(TKey(t, j), k)

\* the pairs of mapping t that are not under key k, in order
TOthers(t, k) ==
  SelectSeq([i \in 1..TPairs(t) |-> i], LAMBDA i : ~IsKey(TKey(t, i), k))

RECURSIVE Removed(_, _, _, _)
\* tout is tin after RemoveKey(x).RenameKey(x, y): no mapping has key x, none
\* has gained a key y, and what is not under x is found in its place
Removed(tin, tout, x, y) ==
  IF tin.Kind = "MappingNode"
    THEN /\ tout.Kind = "MappingNode"
         /\ ~TContains(tout, x)
         /\ TCount(tout, y) <= TCount(tin, y)
         /\ TPairs(tout) = Len(TOthers(tin, x))
         /\ \A j \in 1..TPairs(tout) :
              Removed(TVal(tin, TOthers(tin, x)[j]), TVal(tout, j), x, y)
    ELSE /\ tout.Kind = tin.Kind
         /\ Len(tout.Kids) = Len(tin.Kids)
         /\ \A i \in 1..Len(tin.Kids) : Removed(tin.Kids[i], tout.Kids[i], x, y)

\* the first pair under x and the pairs not under x, in order
TSurvivors(t, x) ==
  SelectSeq([i \in 1..TPairs(t) |-> i],
            LAMBDA i : ~IsKey(TKey(t, i), x) \/ i = TFirst(t, x))

RECURSIVE RenamedAsIs(_, _, _, _)
\* tout is tin after RenameKey(x, y).RemoveKey(x) as C8 has it: every mapping
\* that contained x has key y with x's original value
RenamedAsIs(tin, tout, x, y) ==
  IF tin.Kind = "MappingNode"
    THEN /\ tout.Kind = "MappingNode"
         /\ TContains(tin, x) =>
              \E j \in 1..TPairs(tout) :
                /\ IsKey(TKey(tout, j), y)
                /\ TVal(tout, j) = TVal(tin, TFirst(tin, x))
         /\ TPairs(tout) = Len(TSurvivors(tin, x))
         /\ \A j \in 1..TPairs(tout) :
              RenamedAsIs(TVal(tin, TSurvivors(tin, x)[j]), TVal(tout, j), x, y)
    ELSE /\ tout.Kind = tin.Kind
         /\ Len(tout.Kids) = Len(tin.Kids)
         /\ \A i \in 1..Len(tin.Kids) :
              RenamedAsIs(tin.Kids[i], tout.Kids[i], x, y)

RECURSIVE Renaming(_, _, _)
\* term t with, in every mapping, the first key x turned into y and the
\* other pairs under x left out
Renaming(t, x, y) ==
  IF t.Kind = "MappingNode"
    THEN [t EXCEPT !.Kids =
            LET surv == IF TContains(t, x) THEN TSurvivors(t, x)
                        ELSE [i \in 1..TPairs(t) |-> i]
            IN  [i \in 1..(2 * Len(surv)) |->
                   IF i % 2 = 0
                     THEN Renaming(TVal(t, surv[i \div 2]), x, y)
                   ELSE IF IsKey(TKey(t, surv[(i + 1) \div 2]), x)
                     THEN [TKey(t, surv[(i + 1) \div 2])
                             EXCEPT !.Value = StrV(y)]
                   ELSE TKey(t, surv[(i + 1) \div 2])]]
    ELSE [t EXCEPT !.Kids = [i \in 1..Len(t.Kids) |->
                               Renaming(t.Kids[i], x, y)]]

RECURSIVE Renamed(_, _, _, _)
\* tout is tin after RenameKey(x, y).RemoveKey(x): every mapping that
\* contained x has key y, with x's original value renamed in the same way
Renamed(tin, tout, x, y) ==
  IF tin.Kind = "MappingNode"
    THEN /\ tout.Kind = "MappingNode"
         /\ TContains(tin, x) =>
              \E j \in 1..TPairs(tout) :
                /\ IsKey(TKey(tout, j), y)
                /\ TVal(tout, j) = Renaming(TVal(tin, TFirst(tin, x)), x, y)
         /\ TPairs(tout) = Len(TSurvivors(tin, x))
         /\ \A j \in 1..TPairs(tout) :
              Renamed(TVal(tin, TSurvivors(tin, x)[j]), TVal(tout, j), x, y)
    ELSE /\ tout.Kind = tin.Kind
         /\ Len(tout.Kids) = Len(tin.Kids)
         /\ \A i \in 1..Len(tin.Kids) :
              Renamed(tin.Kids[i], tout.Kids[i], x, y)

RemoveThenRename ==
  /\ Applied /\ Len(dsl) = 2
  /\ dsl[1] = RemoveKeyT("x")
  /\ dsl[2].name = "renameKey" /\ dsl[2].oldKey = "x"

RenameThenRemove ==
  /\ Applied /\ Len(dsl) = 2
  /\ dsl[1].name = "renameKey" /\ dsl[1].oldKey = "x"
  /\ dsl[2] = RemoveKeyT("x")

SameDocuments == Len(OutRoots) = Len(InRoots)

\* C8 as stated: RemoveKey(x).RenameKey(x, y) removes x and never produces
\* y; RenameKey(x, y).RemoveKey(x) leaves every mapping that contained x
\* with key y and x's original value
C8_OrderMatters ==
  /\ RemoveThenRename =>
       /\ SameDocuments
       /\ \A i \in DOMAIN InRoots :
            Removed(TermOf(pre.h, InRoots[i]), TermOf(heap, OutRoots[i]),
                    "x", dsl[2].newKey)
  /\ RenameThenRemove =>
       /\ SameDocuments
       /\ \A i \in DOMAIN InRoots :
            RenamedAsIs(TermOf(pre.h, InRoots[i]), TermOf(heap, OutRoots[i]),
                        "x", dsl[1].newKey)

\* C8, amended: the same for RemoveKey(x).RenameKey(x, y); for y # x,
\* RenameKey(x, y).RemoveKey(x) leaves every mapping that contained x with
\* key y and x's original value renamed in the same way
C8_OrderMattersRecursively ==
  /\ RemoveThenRename =>
       /\ SameDocuments
       /\ \A i \in DOMAIN InRoots :
            Removed(TermOf(pre.h, InRoots[i]), TermOf(heap, OutRoots[i]),
                    "x", dsl[2].newKey)
  /\ (RenameThenRemove /\ dsl[1].newKey # "x") =>
       /\ SameDocuments
       /\ \A i \in DOMAIN InRoots :
            Renamed(TermOf(pre.h, InRoots[i]), TermOf(heap, OutRoots[i]),
                    "x", dsl[1].newKey)

RECURSIVE TNested(_, _)
\* a mapping with key x below the value of a key x
TNested(t, x) ==
  \/ /\ TContains(t, x)
     /\ \E i \in 1..TPairs(t) :
          IsKey(TKey(t, i), x) /\ TContains(TVal(t, i), x)
  \/ \E i \in 1..Len(t.Kids) : TNested(t.Kids[i], x)

\* RenameKey(x, y).RemoveKey(x) applied to a mapping with x under x
C8_Witness ==
  /\ RenameThenRemove /\ dsl[1].newKey = "y"
  /\ Len(InRoots) > 0
  /\ TNested(TermOf(pre.h, InRoots[1]), "x")

RECURSIVE Reach(_, _)
\* the nodes reachable from n through Children
Reach(h, n) ==
  IF n = Nil THEN {}
  ELSE {n} \cup UNION {Reach(h, h[n].Children[i]) :
                         i \in 1..Len(h[n].Children)}

\* the nodes of the input tree
InputNodes ==
  IF in.tree = Nil THEN {}
  ELSE UNION {Reach(pre.h, pre.d[d].Root) :
                d \in {pre.t[in.tree].Documents[i] :
                         i \in 1..Len(pre.t[in.tree].Documents)} \ {Nil}}

\* C9: when Apply has returned, a result or an error, every node of the
\* input tree has the value, comments, children, Parent and Key it had
C9_InputUntouched ==
  pc = "Apply" =>
    \A n \in InputNodes :
      /\ heap[n].Value = pre.h[n].Value
      /\ heap[n].HeadComment = pre.h[n].HeadComment
      /\ heap[n].LineComment = pre.h[n].LineComment
      /\ heap[n].FootComment = pre.h[n].FootComment
      /\ heap[n].Children = pre.h[n].Children
      /\ heap[n].Parent = pre.h[n].Parent
      /\ heap[n].Key = pre.h[n].Key

\* the same for the pipelines without Select
C9_InputUntouchedWithoutSelect ==
  (pc = "Apply" /\ FirstSelect(dsl) = 0) =>
    \A n \in 1..Len(pre.h) : heap[n] = pre.h[n]

Ln(ind, tok) == [ind |-> ind, tok |-> tok]
Raw(s) == [k |-> "raw", s |-> s]
Entry(key, style, tag, val) ==
  [k |-> "entry", key |-> key, style |-> style, tag |-> tag, val |-> val]

EmptyLine == Ln(0, Raw(""))
EmptyText == <<EmptyLine>>

\* strings.TrimSpace(line)
TrimSpace(line) == line.tok

\* strings.HasPrefix(s, "#") of a trimmed line
IsComment(tok) == tok.k = "raw" /\ tok.s \in {"# c", "# @schema"}

\* strings.Contains(line, "# @schema")
ContainsSchema(line) == line.tok = Raw("# @schema")

\* currentDoc.WriteString(line), with the "\n" written first when the
\* builder is not empty; the builder is the list of the lines it holds, and
\* <<>> when its Len() is 0
WriteLine(currentDoc, line) ==
  IF currentDoc = <<>>
    THEN IF line = EmptyLine THEN <<>> ELSE <<line>>
    ELSE Append(currentDoc, line)

RECURSIVE splitLines(_, _, _, _, _)
\* the loop of splitDocuments, with the final "Add the last document"
splitLines(lines, i, documents, currentDoc, inDocument) ==
  IF i > Len(lines)
    THEN IF currentDoc # <<>> THEN Append(documents, currentDoc)
         ELSE documents
  ELSE IF TrimSpace(lines[i]) \in {Raw("---"), Raw("...")}
    THEN splitLines(lines, i + 1,
                    IF currentDoc # <<>> THEN Append(documents, currentDoc)
                    ELSE documents,
                    <<>>, TrimSpace(lines[i]) = Raw("---"))
  ELSE IF inDocument \/ Len(documents) = 0
    THEN splitLines(lines, i + 1, documents, WriteLine(currentDoc, lines[i]),
                    TRUE)
  ELSE splitLines(lines, i + 1, documents, currentDoc, inDocument)

\* splitDocuments(content)
splitDocuments(content) ==
  Let(splitLines(content, 1, <<>>, <<>>, FALSE), LAMBDA documents :
    IF Len(documents) = 0 /\ content # EmptyText THEN <<content>>
    ELSE documents)

RECURSIVE scanLines(_, _, _)
\* the loop of UnmarshalYAML over the lines of one document; returns
\* [hasYAMLContent, commentLines]
scanLines(lines, i, commentLines) ==
  IF i > Len(lines)
    THEN [hasYAMLContent |-> FALSE, commentLines |-> commentLines]
  ELSE IF /\ TrimSpace(lines[i]) # Raw("")
          /\ ~IsComment(TrimSpace(lines[i]))
          /\ TrimSpace(lines[i]) # Raw("---")
    THEN [hasYAMLContent |-> TRUE, commentLines |-> commentLines]
  ELSE scanLines(lines, i + 1,
         IF /\ TrimSpace(lines[i]) # Raw("---")
            /\ (TrimSpace(lines[i]) # Raw("") \/ Len(commentLines) > 0)
           THEN Append(commentLines, lines[i])
           ELSE commentLines)

RECURSIVE dropTrailingEmpty(_)
\* "Remove trailing empty lines"
dropTrailingEmpty(commentLines) ==
  IF Len(commentLines) > 0
     /\ TrimSpace(commentLines[Len(commentLines)]) = Raw("")
    THEN dropTrailingEmpty(SubSeq(commentLines, 1, Len(commentLines) - 1))
    ELSE commentLines


(***************************************************************************)
(* gopkg.in/yaml.v3 as UnmarshalYAML and Document.ToYAML use it, for the   *)
(* documents made of mapping entries with plain, double-quoted or literal  *)
(* scalar values and head comments, or of one plain scalar.  A yaml.Node   *)
(* is a record; its Style is the set of the style bits.  Other documents   *)
(* are refused (ok = FALSE).                                               *)
(***************************************************************************)
MaxLines == 3

\* the texts a line of a scalar value is drawn from
Words == {"", "x", "y", "1", "---", "# @schema"}

\* strings.TrimSpace(line) is a document marker
IsMarker(tok) == tok \in {Raw("---"), Raw("...")}

RECURSIVE Join(_)
\* strings.Join(lines, "\n")
Join(lines) ==
  IF Len(lines) = 1 THEN lines[1]
  ELSE lines[1] \o "\n" \o Join(Tail(lines))

\* strings.Split(s, "\n"), as the inverse of Join
Split(s) ==
  CHOOSE lines \in UNION {[1..n -> Words] : n \in 1..MaxLines} :
    Join(lines) = s

\* strconv.ParseInt(s, 10, 64) succeeds, for the texts of the model
IsInt(s) == s \in {"1", "123"}

\* strconv.ParseFloat(s, 64) succeeds, for the texts of the model
IsFloat(s) == IsInt(s) \/ s \in {"1.5", "inf"}

\* fmt's %v of the float64 that ParseFloat returns: 0 when it fails
FloatText(s) ==
  IF s = "inf" THEN "+Inf" ELSE IF IsFloat(s) THEN s ELSE "0"

BoolV(b) == [t |-> "bool", s |-> IF b THEN "true" ELSE "false"]
FloatV(s) == [t |-> "float", s |-> s]

YamlNode(kind, style, tag, value, content, head) ==
  [Kind |-> kind, Style |-> style, Tag |-> tag, Value |-> value,
   Anchor |-> "", HeadComment |-> head, LineComment |-> "",
   FootComment |-> <<>>, Content |-> content]

\* the zero yaml.Node: what `var node yaml.Node` is before Unmarshal fills it
ZeroYamlNode == YamlNode("", {}, "", "", <<>>, <<>>)

\* the tag yaml.v3 resolves a plain scalar to
resolve(value) ==
  IF IsInt(value) THEN "!!int"
  ELSE IF value = "" THEN "!!null"
  ELSE "!!str"

\* the scalar node the parser makes of a value written with `style` and an
\* explicit `tag` ("" when none): an explicit tag sets the TaggedStyle bit
yamlScalar(style, tag, value, head) ==
  YamlNode("ScalarNode",
           (IF tag # "" THEN {"TaggedStyle"} ELSE {})
             \cup (CASE style = "dq" -> {"DoubleQuotedStyle"}
                     [] style = "lit" -> {"LiteralStyle"}
                     [] OTHER -> {}),
           IF tag # "" THEN tag
           ELSE IF style # "plain" THEN "!!str"
           ELSE resolve(value),
           value, <<>>, head)

RECURSIVE blockLines(_, _)
\* the lines of a literal block: those indented below the entry before i
blockLines(lines, i) ==
  IF i <= Len(lines) /\ lines[i].ind > 0 /\ lines[i].tok.k = "raw"
    THEN <<lines[i].tok.s>> \o blockLines(lines, i + 1)
    ELSE <<>>

RECURSIVE parseEntries(_, _, _, _)
\* the pairs of a block mapping from line i on; pending holds the comment
\* lines read since the last entry
parseEntries(lines, i, pending, content) ==
  IF i > Len(lines)
    THEN [ok |-> pending = <<>>, content |-> content]
  ELSE IF lines[i].ind = 0 /\ IsComment(lines[i].tok)
    THEN parseEntries(lines, i + 1, Append(pending, lines[i]), content)
  ELSE IF lines[i].ind = 0 /\ lines[i].tok.k = "entry"
    THEN LET e     == lines[i].tok
             block == IF e.style = "lit" THEN blockLines(lines, i + 1)
                      ELSE <<>>
             value == IF block = <<>> THEN e.val ELSE Join(block)
         IN  parseEntries(lines, i + 1 + Len(block), <<>>,
               content \o <<yamlScalar("plain", "", e.key, pending),
                            yamlScalar(e.style, e.tag, value, <<>>)>>)
  ELSE [ok |-> FALSE, content |-> content]

\* a blank line the model reads: one that follows the line of a plain or
\* double-quoted entry, where the parser skips it
BlankAllowed(docContent, j) ==
  \/ \A i \in 1..j : docContent[i].tok = Raw("")
  \/ \A k \in j..Len(docContent) : docContent[k].tok = Raw("")
  \/ \E i \in 1..(j - 1) :
       /\ docContent[i].ind = 0
       /\ docContent[i].tok.k = "entry"
       /\ docContent[i].tok.style # "lit"
       /\ \A m \in (i + 1)..j : docContent[m].tok = Raw("")

\* yaml.Unmarshal([]byte(docContent), &node); returns [ok, node]
yamlUnmarshal(docContent) ==
  LET lines == SelectSeq(docContent, LAMBDA l : l.tok # Raw(""))
  IN  IF lines = <<>> THEN [ok |-> TRUE, node |-> ZeroYamlNode]
      ELSE IF \E j \in DOMAIN docContent :
                docContent[j].tok = Raw("") /\ ~BlankAllowed(docContent, j)
        THEN [ok |-> FALSE, node |-> ZeroYamlNode]
      ELSE IF Len(lines) = 1 /\ lines[1].tok.k = "raw"
              /\ ~IsComment(lines[1].tok) /\ ~IsMarker(lines[1].tok)
        THEN [ok |-> TRUE,
              node |-> YamlNode("DocumentNode", {}, "", "",
                         <<yamlScalar("plain", "", lines[1].tok.s, <<>>)>>,
                         <<>>)]
      ELSE Let(parseEntries(lines, 1, <<>>, <<>>), LAMBDA r :
             [ok |-> r.ok /\ r.content # <<>>,
              node |-> YamlNode("DocumentNode", {}, "", "",
                         <<YamlNode("MappingNode", {}, "!!map", "",
                                    r.content, <<>>)>>,
                         <<>>)])

\* the encoder quotes a !!str scalar that would read back as another type
forceQuoting(yn) ==
  /\ yn.Tag = "!!str"
  /\ "TaggedStyle" \notin yn.Style
  /\ yn.Style \cap {"DoubleQuotedStyle", "LiteralStyle"} = {}
  /\ resolve(yn.Value) # "!!str"

\* the style the encoder writes a scalar in: the node's, else literal for a
\* value of several lines, else double-quoted when forced, else plain; the
\* emitter writes an empty literal double-quoted
encStyle(yn) ==
  IF "DoubleQuotedStyle" \in yn.Style THEN "dq"
  ELSE IF "LiteralStyle" \in yn.Style \/ Len(Split(yn.Value)) > 1
    THEN IF yn.Value = "" THEN "dq" ELSE "lit"
  ELSE IF forceQuoting(yn) THEN "dq"
  ELSE "plain"

\* the tag the encoder writes: none when reading the text back gives it
encTag(yn) ==
  IF yn.Tag = "" \/ "TaggedStyle" \in yn.Style THEN yn.Tag
  ELSE IF yn.Tag = "!!str" THEN ""
  ELSE IF resolve(yn.Value) = yn.Tag THEN ""
  ELSE yn.Tag

RECURSIVE encPairs(_, _)
\* the lines of the pairs of a block mapping, from the i-th child on
encPairs(content, i) ==
  IF i + 1 > Len(content) THEN <<>>
  ELSE LET key   == content[i]
           value == content[i + 1]
           style == encStyle(value)
           block == Split(value.Value)
       IN  key.HeadComment
           \o <<Ln(0, Entry(key.Value, style, encTag(value),
                            IF style = "lit" THEN "" ELSE value.Value))>>
           \o (IF style = "lit"
                 THEN [j \in 1..Len(block) |-> Ln(2, Raw(block[j]))]
                 ELSE <<>>)
           \o encPairs(content, i + 2)

\* encoder.Encode(yamlNode) with SetIndent(2): the text written
yamlEncode(yn) ==
  LET top == IF yn.Kind = "DocumentNode" THEN yn.Content[1] ELSE yn
  IN  (IF top.Kind = "MappingNode" THEN encPairs(top.Content, 1)
       ELSE <<Ln(0, Raw(top.Value))>>)
      \o <<EmptyLine>>


(***************************************************************************)
(* Parsing and printing.  A text is the list of its lines, as              *)
(* strings.Split(text, "\n") gives them; so is a comment of several lines. *)
(***************************************************************************)
\* the `switch yamlNode.Style` of ConvertFromYAMLNode: a case matches the
\* whole value, so a style with the TaggedStyle bit falls to the default
convertStyle(style) ==
  CASE style = {"LiteralStyle"} -> "LiteralStyle"
    [] style = {"FoldedStyle"} -> "FoldedStyle"
    [] style = {"SingleQuotedStyle"} -> "QuotedStyle"
    [] style = {"DoubleQuotedStyle"} -> "DoubleQuotedStyle"
    [] style = {"FlowStyle"} -> "FlowStyle"
    [] OTHER -> "DefaultStyle"

\* "decode the value properly" of ConvertFromYAMLNode
convertValue(yn) ==
  IF yn.Tag = "!!str" \/ yn.Tag = ""
    THEN CASE yn.Value = "true" -> BoolV(TRUE)
           [] yn.Value = "false" -> BoolV(FALSE)
           [] yn.Value \in {"null", "~"} -> NilV
           [] OTHER ->
                IF IsInt(yn.Value) THEN IntV(yn.Value)
                ELSE IF IsFloat(yn.Value) THEN FloatV(FloatText(yn.Value))
                ELSE StrV(yn.Value)
  ELSE IF yn.Tag = "!!bool" THEN BoolV(yn.Value = "true")
  ELSE IF yn.Tag = "!!int"
    THEN IF IsInt(yn.Value) THEN IntV(yn.Value) ELSE StrV(yn.Value)
  ELSE IF yn.Tag = "!!float" THEN FloatV(FloatText(yn.Value))
  ELSE IF yn.Tag = "!!null" THEN NilV
  ELSE StrV(yn.Value)

RECURSIVE ConvertFromYAMLNode(_, _)
RECURSIVE convertChildren(_, _, _, _)
\* ConvertFromYAMLNode(yamlNode), yamlNode not nil; returns [h, n]
ConvertFromYAMLNode(h, yn) ==
  Let(NewNode(h, IF yn.Kind \in {"DocumentNode", "MappingNode",
                                 "SequenceNode", "ScalarNode", "AliasNode"}
                   THEN yn.Kind ELSE "ScalarNode"),
      LAMBDA r :
        convertChildren(
          [r.h EXCEPT ![r.n].Value = IF r.h[r.n].Kind = "ScalarNode"
                                       THEN convertValue(yn)
                                       ELSE StrV(yn.Value),
                      ![r.n].Tag = yn.Tag,
                      ![r.n].Anchor = yn.Anchor,
                      ![r.n].HeadComment = yn.HeadComment,
                      ![r.n].LineComment = yn.LineComment,
                      ![r.n].FootComment = yn.FootComment,
                      ![r.n].Style = convertStyle(yn.Style)],
          r.n, yn.Content, 1))

\* "Process children" of ConvertFromYAMLNode, from the i-th on
convertChildren(h, n, content, i) ==
  IF h[n].Kind = "MappingNode"
    THEN IF i + 1 > Len(content) THEN [h |-> h, n |-> n]
         ELSE Let(ConvertFromYAMLNode(h, content[i]), LAMBDA key :
              Let(ConvertFromYAMLNode(key.h, content[i + 1]), LAMBDA value :
                convertChildren(AddKeyValue(value.h, n, key.n, value.n),
                                n, content, i + 2)))
  ELSE IF h[n].Kind \in {"SequenceNode", "DocumentNode"}
    THEN IF i > Len(content) THEN [h |-> h, n |-> n]
         ELSE Let(ConvertFromYAMLNode(h, content[i]), LAMBDA child :
                convertChildren(AddChild(child.h, n, child.n),
                                n, content, i + 1))
  ELSE [h |-> h, n |-> n]

\* aliasName[1:] when aliasName starts with '*', for the names of the model
aliasNameOf(name) ==
  CASE name = "*x" -> "x" [] name = "*y" -> "y" [] OTHER -> name

RECURSIVE resolveAnchors(_, _, _)
RECURSIVE resolveChildren(_, _, _, _)
\* resolveAnchors(node, doc)
resolveAnchors(st, node, d) ==
  IF node = Nil THEN st
  ELSE Let(IF st.h[node].Anchor # ""
             THEN RegisterAnchor(st, d, st.h[node].Anchor, node)
             ELSE st,
       LAMBDA s1 :
         resolveChildren(
           IF s1.h[node].Kind = "AliasNode" /\ s1.h[node].Value # NilV
             THEN [s1 EXCEPT !.h[node].Alias =
                               GetAnchor(s1, d,
                                 aliasNameOf(Render(s1.h[node].Value)))]
             ELSE s1,
           node, d, 1))

\* "Process children recursively" of resolveAnchors
resolveChildren(st, node, d, i) ==
  IF i > Len(st.h[node].Children) THEN st
  ELSE resolveChildren(resolveAnchors(st, st.h[node].Children[i], d),
                       node, d, i + 1)


RECURSIVE unmarshalDocuments(_, _, _, _)
\* the loop of UnmarshalYAML over the documents, from the i-th on;
\* returns [st, t, err]
unmarshalDocuments(st, tree, documents, i) ==
  IF i > Len(documents) THEN [st |-> st, t |-> tree, err |-> FALSE]
  ELSE Let(scanLines(documents[i], 1, <<>>), LAMBDA scan :
    IF ~scan.hasYAMLContent /\ Len(scan.commentLines) > 0
      THEN Let(AddDocument(st, tree), LAMBDA doc :
           Let(NewNode(doc.st.h, "DocumentNode"), LAMBDA rootNode :
             unmarshalDocuments(
               SetRoot([doc.st EXCEPT !.h =
                          [rootNode.h EXCEPT ![rootNode.n].HeadComment =
                             dropTrailingEmpty(scan.commentLines)]],
                       doc.d, rootNode.n),
               tree, documents, i + 1)))
      ELSE Let(yamlUnmarshal(documents[i]), LAMBDA parsed :
        IF ~parsed.ok THEN [st |-> st, t |-> Nil, err |-> TRUE]
        ELSE Let(AddDocument(st, tree), LAMBDA doc :
             Let(ConvertFromYAMLNode(doc.st.h, parsed.node),
                 LAMBDA rootNode :
               unmarshalDocuments(
                 SetRoot(resolveAnchors([doc.st EXCEPT !.h = rootNode.h],
                                        rootNode.n, doc.d),
                         doc.d, rootNode.n),
                 tree, documents, i + 1)))))

\* UnmarshalYAML(data); returns [st, t, err]
UnmarshalYAML(st, data) ==
  Let(NewNodeTree(st), LAMBDA tree :
    IF data = EmptyText
      THEN Let(AddDocument(tree.st, tree.t), LAMBDA doc :
             [st |-> SetRoot(doc.st, doc.d, Nil), t |-> tree.t,
              err |-> FALSE])
      ELSE unmarshalDocuments(tree.st, tree.t, splitDocuments(data), 1))

\* the `switch n.Style` of ToYAMLNode
yamlStyle(style) ==
  CASE style = "LiteralStyle" -> {"LiteralStyle"}
    [] style = "FoldedStyle" -> {"FoldedStyle"}
    [] style = "QuotedStyle" -> {"SingleQuotedStyle"}
    [] style = "DoubleQuotedStyle" -> {"DoubleQuotedStyle"}
    [] style = "FlowStyle" -> {"FlowStyle"}
    [] OTHER -> {}

RECURSIVE ToYAMLNode(_, _)
\* n.ToYAMLNode(), n not nil
ToYAMLNode(h, n) ==
  [Kind        |-> IF h[n].Kind = "NullNode" THEN "ScalarNode"
                   ELSE h[n].Kind,
   Style       |-> yamlStyle(h[n].Style),
   Tag         |-> IF h[n].Kind = "NullNode" THEN "!!null" ELSE h[n].Tag,
   Value       |-> IF \/ h[n].Kind = "NullNode"
                      \/ h[n].Kind = "ScalarNode" /\ h[n].Value = NilV
                     THEN ""
                     ELSE Render(h[n].Value),
   Anchor      |-> h[n].Anchor,
   HeadComment |-> h[n].HeadComment,
   LineComment |-> h[n].LineComment,
   FootComment |-> h[n].FootComment,
   Content     |-> IF h[n].Kind \in {"DocumentNode", "MappingNode",
                                     "SequenceNode"}
                     THEN [i \in 1..Len(h[n].Children) |->
                             ToYAMLNode(h, h[n].Children[i])]
                     ELSE <<>>]

\* d.ToYAML() of Document: the bytes written
DocumentToYAML(st, d) ==
  IF st.d[d].Root = Nil THEN EmptyText
  ELSE IF /\ st.h[st.d[d].Root].Kind = "DocumentNode"
          /\ Len(st.h[st.d[d].Root].Children) = 0
          /\ Len(st.h[st.d[d].Root].HeadComment) > 0
    THEN IF st.h[st.d[d].Root].HeadComment[
               Len(st.h[st.d[d].Root].HeadComment)] = EmptyLine
           THEN st.h[st.d[d].Root].HeadComment
           ELSE st.h[st.d[d].Root].HeadComment \o <<EmptyLine>>
  ELSE IF /\ st.h[st.d[d].Root].Kind = "DocumentNode"
          /\ Len(st.h[st.d[d].Root].Children) = 0
    THEN EmptyText
  ELSE yamlEncode(ToYAMLNode(st.h, st.d[d].Root))

RECURSIVE schemaLines(_, _)
\* the loop of addEmptyLinesBeforeSchemaComments, from line i on
schemaLines(lines, i) ==
  IF i > Len(lines) THEN <<>>
  ELSE (IF /\ i > 1
           /\ ContainsSchema(lines[i])
           /\ lines[i - 1] # EmptyLine
           /\ ~IsComment(TrimSpace(lines[i - 1]))
          THEN <<EmptyLine>> ELSE <<>>)
       \o <<lines[i]>> \o schemaLines(lines, i + 1)

addEmptyLinesBeforeSchemaComments(input) == schemaLines(input, 1)

\* append(result, bytes...): the last line of result goes on in bytes
AppendBytes(result, bytes) ==
  CASE result[Len(result)] = EmptyLine ->
         SubSeq(result, 1, Len(result) - 1) \o bytes
    [] bytes[1] = EmptyLine -> result \o Tail(bytes)

RECURSIVE treeBytes(_, _, _, _)
\* the loop of NodeTree.ToYAML, from the i-th document on
treeBytes(st, documents, i, result) ==
  IF i > Len(documents) THEN result
  ELSE treeBytes(st, documents, i + 1,
         AppendBytes(IF i > 1
                       THEN AppendBytes(result, <<Ln(0, Raw("---")), EmptyLine>>)
                       ELSE result,
                     addEmptyLinesBeforeSchemaComments(
                       DocumentToYAML(st, documents[i]))))

\* nt.ToYAML() of NodeTree: the bytes written
NodeTreeToYAML(st, nt) == treeBytes(st, st.t[nt].Documents, 1, EmptyText)


(***************************************************************************)
(* Round trips: a text is parsed, printed, parsed again and printed again. *)
(***************************************************************************)
MaxRounds == 2

\* the lines the input texts are made of
Alphabet ==
  {Ln(0, Raw("---")), Ln(0, Raw("...")), EmptyLine, Ln(2, Raw("")),
   Ln(0, Raw("# c")), Ln(0, Raw("# @schema")),
   Ln(0, Raw("x")), Ln(2, Raw("x")), Ln(2, Raw("---")),
   Ln(2, Raw("# @schema")),
   Ln(0, Entry("a", "plain", "", "x")),
   Ln(0, Entry("b", "plain", "", "1")),
   Ln(0, Entry("a", "plain", "!!str", "1")),
   Ln(0, Entry("a", "dq", "!!str", "x\n---\ny")),
   Ln(0, Entry("b", "dq", "", "x\n---\ny")),
   Ln(0, Entry("a", "lit", "", ""))}

\* the input texts: at most MaxLines lines, each ended by a newline
Texts == {lines \o <<EmptyLine>> : lines \in SeqsUpTo(Alphabet, MaxLines)}

InitRT ==
  \E data \in Texts :
    Start([st |-> [h |-> <<>>, d |-> <<>>, t |-> <<>>],
           in |-> [text |-> data]])

\* UnmarshalYAML of the input, then of the text printed last
ReturnUnmarshal(r) ==
  /\ Return(r.st,
            [op |-> "UnmarshalYAML", t |-> r.t, err |-> r.err,
             texts |-> IF pc = "ready" THEN <<>> ELSE out.texts,
             counts |-> IF r.err THEN <<>>
                        ELSE (IF pc = "ready" THEN <<>> ELSE out.counts)
                             \o <<Len(r.st.t[r.t].Documents)>>],
            IF r.err THEN "failed" ELSE "parsed")
  /\ UNCHANGED mapOrder

CallUnmarshalYAML ==
  \/ /\ pc = "ready"
     /\ ReturnUnmarshal(UnmarshalYAML(Store, in.text))
  \/ /\ pc = "printed"
     /\ Len(out.counts) < MaxRounds
     /\ ReturnUnmarshal(UnmarshalYAML(Store, out.texts[Len(out.texts)]))

\* ToYAML of the tree parsed last
CallToYAML ==
  /\ pc = "parsed"
  /\ Return(Store,
            [out EXCEPT !.op = "ToYAML",
                        !.texts = Append(@, NodeTreeToYAML(Store, out.t))],
            "printed")
  /\ UNCHANGED mapOrder

NextRT ==
  \/ CallUnmarshalYAML
  \/ CallToYAML

SpecRT == InitRT /\ [][NextRT]_vars

\* both round trips are done
RoundTripped == pc = "printed" /\ Len(out.texts) = MaxRounds

\* C6: for every input text that UnmarshalYAML parses without error, the
\* text printed from the parse is byte-identical to the text printed from
\* the parse of that text, and both parses have the same number of
\* documents.
C6_RoundTripIdempotent ==
  RoundTripped =>
    /\ out.texts[1] = out.texts[2]
    /\ out.counts[1] = out.counts[2]


(***************************************************************************)
(* Query (advanced.go).  A query is the sequence of its characters, so     *)
(* strings.Split, HasPrefix, HasSuffix, the slice part[1:len(part)-1] and  *)
(* strconv.Atoi are computed on it.                                        *)
(***************************************************************************)
RECURSIVE SplitPath(_, _, _)
\* strings.Split(query, "/") from character i on; cur is the part being read
SplitPath(query, i, cur) ==
  IF i > Len(query) THEN <<cur>>
  ELSE IF query[i] = "/" THEN <<cur>> \o SplitPath(query, i + 1, <<>>)
  ELSE SplitPath(query, i + 1, Append(cur, query[i]))

RECURSIVE PartText(_)
\* the part as a Go string
PartText(part) ==
  IF part = <<>> THEN "" ELSE part[1] \o PartText(Tail(part))

\* the value of a decimal digit; -1 for any other character
DigitValue(c) ==
  CASE c = "0" -> 0 [] c = "1" -> 1 [] c = "2" -> 2 [] c = "3" -> 3
    [] c = "4" -> 4 [] c = "5" -> 5 [] c = "6" -> 6 [] c = "7" -> 7
    [] c = "8" -> 8 [] c = "9" -> 9 [] OTHER -> -1

RECURSIVE DecimalValue(_, _)
\* the number the digits stand for, acc being the value of those read
DecimalValue(digits, acc) ==
  IF digits = <<>> THEN acc
  ELSE DecimalValue(Tail(digits), 10 * acc + DigitValue(digits[1]))

\* a conversion that drops the sign: "-1" reads as 1
Atoi_unsigned(s) ==
  LET digits == IF s # <<>> /\ s[1] \in {"-", "+"} THEN Tail(s) ELSE s
  IN  IF digits = <<>> \/ \E i \in DOMAIN digits : DigitValue(digits[i]) < 0
        THEN [ok |-> FALSE, n |-> 0]
        ELSE [ok |-> TRUE, n |-> DecimalValue(digits, 0)]

\* strconv.Atoi(s); returns [ok, n]: an optional sign, then digits only
Atoi(s) ==
  LET signed == s # <<>> /\ s[1] \in {"-", "+"}
      digits == IF signed THEN Tail(s) ELSE s
  IN  IF digits = <<>> \/ \E i \in DOMAIN digits : DigitValue(digits[i]) < 0
        THEN [ok |-> FALSE, n |-> 0]
        ELSE [ok |-> TRUE,
              n |-> IF signed /\ s[1] = "-" THEN 0 - DecimalValue(digits, 0)
                    ELSE DecimalValue(digits, 0)]

RECURSIVE queryKey(_, _, _, _)
\* the "Key name" loop of Query over the pairs of n, with its break
queryKey(h, n, key, i) ==
  IF i + 1 > Len(h[n].Children) THEN <<>>
  ELSE IF /\ h[h[n].Children[i]].Kind = "ScalarNode"
          /\ Render(h[h[n].Children[i]].Value) = key
    THEN <<h[n].Children[i + 1]>>
  ELSE queryKey(h, n, key, i + 2)

\* a wildcard that yields the values of a mapping only, every child of
\* the other kinds, and nothing for the other parts
queryNode_values(h, n, part) ==
  IF n = Nil \/ part # <<"*">> THEN <<>>
  ELSE IF h[n].Kind = "MappingNode"
    THEN [i \in 1..(Len(h[n].Children) \div 2) |-> h[n].Children[2 * i]]
  ELSE h[n].Children

\* what one node n of the results contributes for one part
queryNode(h, n, part) ==
  IF n = Nil THEN <<>>
  ELSE IF part = <<"*">> THEN h[n].Children
  ELSE IF part[1] = "[" /\ part[Len(part)] = "]" /\ Len(part) >= 2
    THEN IF /\ Atoi(SubSeq(part, 2, Len(part) - 1)).ok
            /\ h[n].Kind = "SequenceNode"
            /\ Atoi(SubSeq(part, 2, Len(part) - 1)).n >= 0
            /\ Atoi(SubSeq(part, 2, Len(part) - 1)).n < Len(h[n].Children)
           THEN <<h[n].Children[Atoi(SubSeq(part, 2, Len(part) - 1)).n + 1]>>
           ELSE <<>>
  ELSE IF h[n].Kind = "MappingNode" THEN queryKey(h, n, PartText(part), 1)
  ELSE <<>>

RECURSIVE queryResults(_, _, _, _)
\* the loop `for _, n := range results` of Query, from the i-th on
queryResults(h, results, part, i) ==
  IF i > Len(results) THEN <<>>
  ELSE queryNode(h, results[i], part) \o queryResults(h, results, part, i + 1)

RECURSIVE queryParts(_, _, _, _)
\* the loop `for _, part := range parts` of Query, from the i-th on
queryParts(h, parts, i, results) ==
  IF i > Len(parts) THEN results
  ELSE IF parts[i] = <<>> THEN queryParts(h, parts, i + 1, results)
  ELSE queryParts(h, parts, i + 1, queryResults(h, results, parts[i], 1))

\* Query(node, query)
Query(h, node, query) ==
  queryParts(h, SplitPath(query, 1, <<>>), 1, <<node>>)


(***************************************************************************)
(* Query: the inputs and the call.  A query is up to MaxParts parts joined *)
(* with "/"; the trees hold nested sequences and mappings, a repeated key, *)
(* an integer key, a key that is not a scalar and a mapping with a key     *)
(* left without a value.                                                   *)
(***************************************************************************)
MaxParts == 3

QueryParts ==
  {<<>>, <<"*">>, <<"a">>, <<"b">>, <<"1">>, <<"[", "0", "]">>,
   <<"[", "1", "]">>, <<"[", "2", "]">>, <<"[", "-", "1", "]">>,
   <<"[", "+", "1", "]">>, <<"[", "a", "]">>, <<"[", "]">>, <<"[">>,
   <<"[", "0", "1", "]">>}

RECURSIVE JoinParts(_)
\* strings.Join(parts, "/") as characters
JoinParts(parts) ==
  IF Len(parts) = 0 THEN <<>>
  ELSE IF Len(parts) = 1 THEN parts[1]
  ELSE parts[1] \o <<"/">> \o JoinParts(Tail(parts))

Queries == {JoinParts(ps) : ps \in SeqsUpTo(QueryParts, MaxParts)}

QueryTerms ==
  {Sc("x"), SeqT(<<>>), Map(<<>>),
   SeqT(<<Sc("x"), Map(<<Sc("a"), Sc("y")>>), SeqT(<<Sc("z"), Sc("a")>>)>>),
   Map(<<Sc("a"), Map(<<Sc("b"), Sc("1"), Sc("a"), SeqT(<<Sc("x"), Sc("y")>>)>>),
         Sc("b"), ScInt("1")>>),
   Map(<<Sc("a"), Sc("x"), Sc("a"), Sc("y")>>),
   Map(<<ScInt("1"), Sc("x"), SeqT(<<Sc("a")>>), Sc("y"), Sc("b"), Sc("z")>>),
   Map(<<Sc("a"), Sc("x"), Sc("b")>>)}

InitQuery ==
  \E t \in QueryTerms, kv \in BOOLEAN :
    Let(Build(<<>>, t, kv), LAMBDA r :
      Start([st |-> [h |-> r.h, d |-> <<>>, t |-> <<>>],
             in |-> [root |-> r.n, kv |-> kv]]))

\* Query(node, query) for a node of the tree, or nil
CallQuery ==
  /\ pc = "ready"
  /\ \E node \in 0..Len(heap), query \in Queries :
       Return(Store,
              [op |-> "Query", node |-> node, query |-> query,
               results |-> Query(heap, node, query)],
              "Query")
  /\ UNCHANGED mapOrder

NextQuery == CallQuery

SpecQuery == InitQuery /\ [][NextQuery]_vars

Queried == pc = "Query" /\ out.op = "Query"

\* C11: Query(node, "*") on a Sequence node with n children returns exactly
\* those n children in child order; on a Mapping node with k pairs it
\* returns all 2k children, the j-th key followed by the j-th value
C11_WildcardChildren ==
  (Queried /\ out.query = <<"*">> /\ out.node # Nil) =>
    LET kids == heap[out.node].Children
        res  == out.results
    IN  /\ heap[out.node].Kind = "SequenceNode" =>
             /\ Len(res) = Len(kids)
             /\ \A i \in 1..Len(kids) : res[i] = kids[i]
        /\ (heap[out.node].Kind = "MappingNode" /\ Len(kids) % 2 = 0) =>
             /\ Len(res) = Len(kids)
             /\ \A j \in 1..(Len(kids) \div 2) :
                  /\ res[2 * j - 1] = kids[2 * j - 1]
                  /\ res[2 * j] = kids[2 * j]
                  /\ in.kv => heap[res[2 * j]].Key = res[2 * j - 1]

\* a wildcard has been asked of a mapping with three pairs
C11_Witness ==
  /\ Queried /\ out.query = <<"*">> /\ out.node # Nil
  /\ heap[out.node].Kind = "MappingNode"
  /\ Len(heap[out.node].Children) = 6
  /\ Len(out.results) = 6


\* the key texts of the query parts that are literal segments
LiteralSegments == {<<"a">>, <<"b">>, <<"1">>}

\* the bracketed integers among the query parts, with the index they name
IndexSegments ==
  {<<<<"[", "0", "]">>, 0>>, <<<<"[", "1", "]">>, 1>>,
   <<<<"[", "2", "]">>, 2>>, <<<<"[", "-", "1", "]">>, 0 - 1>>}

\* mapping n has a pair whose key is the scalar printed as the segment
HasKeyText(h, n, seg) ==
  \E j \in 1..(Len(h[n].Children) \div 2) :
    /\ h[h[n].Children[2 * j - 1]].Kind = "ScalarNode"
    /\ Render(h[h[n].Children[2 * j - 1]].Value) = PartText(seg)

MaxNodes == 3
MaxKids == 2
MaxCalls == 6

\* index of the first occurrence of n among the children of p; 0 when absent
IndexOfChild(h, p, n) ==
  IF \E i \in 1..Len(h[p].Children) : h[p].Children[i] = n
    THEN CHOOSE i \in 1..Len(h[p].Children) :
           /\ h[p].Children[i] = n
           /\ \A j \in 1..(i - 1) : h[p].Children[j] # n
    ELSE 0

\* the sequence s without its i-th element
RemoveAt(s, i) == SubSeq(s, 1, i - 1) \o SubSeq(s, i + 1, Len(s))

\* n.Remove(); returns [h, err]
Remove(h, n) ==
  IF h[n].Parent = Nil THEN [h |-> h, err |-> "cannot remove root node"]
  ELSE IF IndexOfChild(h, h[n].Parent, n) = 0
    THEN [h |-> h, err |-> "node not found in parent's children"]
  ELSE [h |-> [[h EXCEPT ![h[n].Parent].Children =
                            RemoveAt(@, IndexOfChild(h, h[n].Parent, n))]
                 EXCEPT ![n].Parent = Nil],
        err |-> ""]

\* the assignments of ReplaceWith once n is found at index i of its parent;
\* replacement.Parent panics when replacement is nil
replaceAt(h, n, replacement, i) ==
  Let([h EXCEPT ![h[n].Parent].Children[i] = replacement], LAMBDA h1 :
    IF replacement = Nil THEN [h |-> h1, err |-> "panic"]
    ELSE Let([h1 EXCEPT ![replacement].Parent = h1[n].Parent], LAMBDA h2 :
         Let([h2 EXCEPT ![replacement].Key = h2[n].Key], LAMBDA h3 :
           [h |-> [h3 EXCEPT ![n].Parent = Nil], err |-> ""])))

\* a replacement that takes the node's Parent and Key before the node's own
\* Parent is looked at
ReplaceWith_unchecked(h, n, replacement) ==
  IF replacement = Nil THEN [h |-> h, err |-> "panic"]
  ELSE Let([h EXCEPT ![replacement].Parent = h[n].Parent,
                     ![replacement].Key = h[n].Key], LAMBDA h1 :
         IF h1[n].Parent = Nil
           THEN [h |-> h1, err |-> "cannot replace root node"]
         ELSE IF IndexOfChild(h1, h1[n].Parent, n) = 0
           THEN [h |-> h1, err |-> "node not found in parent's children"]
         ELSE [h |-> [h1 EXCEPT ![h1[n].Parent].Children[
                                    IndexOfChild(h1, h1[n].Parent, n)] =
                                  replacement,
                                ![n].Parent = Nil],
               err |-> ""])

\* n.ReplaceWith(replacement); returns [h, err]
ReplaceWith(h, n, replacement) ==
  IF h[n].Parent = Nil THEN [h |-> h, err |-> "cannot replace root node"]
  ELSE IF IndexOfChild(h, h[n].Parent, n) = 0
    THEN [h |-> h, err |-> "node not found in parent's children"]
  ELSE replaceAt(h, n, replacement, IndexOfChild(h, h[n].Parent, n))

\* n.AddKeyValue(key, value) with its error; value.Parent panics when value
\* is nil and key is not
AddKeyValueErr(h, n, key, value) ==
  IF h[n].Kind # "MappingNode"
    THEN [h |-> h, err |-> "can only add key-value pairs to mapping nodes"]
  ELSE IF key # Nil /\ value = Nil
    THEN [h |-> [h EXCEPT ![key].Parent = n], err |-> "panic"]
  ELSE [h |-> AddKeyValue(h, n, key, value), err |-> ""]

\* n.AddSequenceItem(item) with its error
AddSequenceItemErr(h, n, item) ==
  IF h[n].Kind # "SequenceNode"
    THEN [h |-> h, err |-> "can only add items to sequence nodes"]
    ELSE [h |-> AddChild(h, n, item), err |-> ""]

InitNode ==
  Start([st |-> [h |-> <<>>, d |-> <<>>, t |-> <<>>], in |-> [calls |-> 0]])

\* a node operation returns r = [h, err] for the arguments args; in.calls
\* counts the calls made so far, at most MaxCalls
ReturnOp(r, name, args) ==
  /\ in.calls < MaxCalls
  /\ in' = [calls |-> in.calls + 1]
  /\ heap' = r.h
  /\ out' = [op |-> name, err |-> r.err, args |-> args]
  /\ pc' = IF r.err = "panic" THEN "panic" ELSE name
  /\ UNCHANGED <<dheap, theap, pre, dsl, mapOrder>>

Nodes == 1..Len(heap)
NodesOrNil == 0..Len(heap)
Roomy(n) == Len(heap[n].Children) < MaxKids

CallNewScalarNode ==
  /\ pc # "panic" /\ Len(heap) < MaxNodes
  /\ ReturnOp([h |-> NewScalarNode(heap, StrV("k")).h, err |-> ""],
              "NewScalarNode", <<Len(heap) + 1>>)

CallNewMappingNode ==
  /\ pc # "panic" /\ Len(heap) < MaxNodes
  /\ ReturnOp([h |-> NewMappingNode(heap).h, err |-> ""],
              "NewMappingNode", <<Len(heap) + 1>>)

CallNewSequenceNode ==
  /\ pc # "panic" /\ Len(heap) < MaxNodes
  /\ ReturnOp([h |-> NewSequenceNode(heap).h, err |-> ""],
              "NewSequenceNode", <<Len(heap) + 1>>)

CallAddKeyValue ==
  /\ pc # "panic"
  /\ \E n \in Nodes, key, value \in NodesOrNil :
       /\ Roomy(n)
       /\ ReturnOp(AddKeyValueErr(heap, n, key, value), "AddKeyValue",
                   <<n, key, value>>)

CallAddChild ==
  /\ pc # "panic"
  /\ \E n \in Nodes, child \in NodesOrNil :
       /\ Roomy(n)
       /\ ReturnOp([h |-> AddChild(heap, n, child), err |-> ""], "AddChild",
                   <<n, child>>)

CallAddSequenceItem ==
  /\ pc # "panic"
  /\ \E n \in Nodes, item \in NodesOrNil :
       /\ Roomy(n)
       /\ ReturnOp(AddSequenceItemErr(heap, n, item), "AddSequenceItem",
                   <<n, item>>)

CallRemove ==
  /\ pc # "panic"
  /\ \E n \in Nodes : ReturnOp(Remove(heap, n), "Remove", <<n>>)

CallReplaceWith ==
  /\ pc # "panic"
  /\ \E n \in Nodes, replacement \in NodesOrNil :
       ReturnOp(ReplaceWith(heap, n, replacement), "ReplaceWith",
                <<n, replacement>>)

NextNode ==
  \/ CallNewScalarNode
  \/ CallNewMappingNode
  \/ CallNewSequenceNode
  \/ CallAddKeyValue
  \/ CallAddChild
  \/ CallAddSequenceItem
  \/ CallRemove
  \/ CallReplaceWith

SpecNode == InitNode /\ [][NextNode]_vars


\* a step in which Remove or ReplaceWith is called on a node without Parent
RootCall ==
  /\ pc' \in {"Remove", "ReplaceWith"}
  /\ in'.calls = in.calls + 1
  /\ heap[out'.args[1]].Parent = Nil

\* C13: Remove and ReplaceWith called on a node whose Parent is nil return
\* an error and leave every node, the replacement's Parent and Key
\* included, as it was before the call
C13_RootCallFails ==
  [][RootCall => (out'.err # "" /\ out'.err # "panic" /\ heap' = heap)]_vars

\* ReplaceWith has refused to replace a root by a node that has a Parent and
\* a Key of its own
C13_Witness ==
  /\ pc = "ReplaceWith" /\ out.err = "cannot replace root node"
  /\ out.args[2] # Nil
  /\ heap[out.args[1]].Parent = Nil /\ heap[out.args[1]].Key = Nil
  /\ heap[out.args[2]].Parent # Nil /\ heap[out.args[2]].Key # Nil

\* C14: whatever node operations have been called, every Mapping node has
\* an even number of children
C14_MappingChildrenEven ==
  pc # "panic" =>
    \A n \in Nodes :
      heap[n].Kind = "MappingNode" => Len(heap[n].Children) % 2 = 0

\* the parent invariant below root r: every child of a reachable node has
\* that node as Parent and occurs once among its children
ParentInvariant(h, r) ==
  \A n \in Reach(h, r) :
    \A i \in 1..Len(h[n].Children) :
      /\ h[h[n].Children[i]].Parent = n
      /\ \A j \in 1..Len(h[n].Children) :
           h[n].Children[j] = h[n].Children[i] => j = i

\* the roots of the documents of tree t
RootsOf(st, t) ==
  {st.d[st.t[t].Documents[i]].Root : i \in 1..Len(st.t[t].Documents)} \ {Nil}

\* C15: when the inputs satisfy the parent invariant, every child of a node
\* reachable from the root returned by MergeNodes, or from a document root
\* of the tree returned by MergeTrees, has that node as Parent and occurs
\* exactly once among that node's children
C15_ParentInvariantKept ==
  /\ (pc = "MergeNodes" /\ out.n # Nil
      /\ ParentInvariant(pre.h, in.base)
      /\ ParentInvariant(pre.h, in.overlay)) =>
       ParentInvariant(heap, out.n)
  /\ (pc = "MergeTrees" /\ out.t # Nil
      /\ \A r \in RootsOf(pre, in.baseTree) \cup RootsOf(pre, in.overlayTree) :
           ParentInvariant(pre.h, r)) =>
       \A r \in RootsOf(Store, out.t) : ParentInvariant(heap, r)


\* a line that is neither blank nor a `---` or `...` marker
IsContentLine(line) == line.tok \notin {Raw(""), Raw("---"), Raw("...")}

RECURSIVE ConcatDocs(_)
\* the lines of the documents, one document after the other
ConcatDocs(documents) ==
  IF documents = <<>> THEN <<>>
  ELSE documents[1] \o ConcatDocs(Tail(documents))

\* the number of regions of lines[i..] between marker lines that hold a line
\* other than the empty one; open says that the region being read holds one
RECURSIVE RegionCount(_, _, _)
RegionCount(lines, i, open) ==
  IF i > Len(lines) THEN IF open THEN 1 ELSE 0
  ELSE IF lines[i].tok \in {Raw("---"), Raw("...")}
    THEN (IF open THEN 1 ELSE 0) + RegionCount(lines, i + 1, FALSE)
  ELSE RegionCount(lines, i + 1, open \/ lines[i] # EmptyLine)

FirstParse == pc = "parsed" /\ Len(out.counts) = 1 /\ Len(out.texts) = 0

\* C16: UnmarshalYAML of the empty input gives one Document without root;
\* of any other input that parses and holds a line that is neither blank nor
\* a marker, it gives as many Documents as there are non-empty regions
\* between marker lines, a region after a `...` line included, and the
\* non-blank lines that are no markers are, in input
\* order, exactly the non-blank lines of the Documents' texts
C16_DocumentsAreRegions ==
  FirstParse =>
    IF in.text = EmptyText
      THEN /\ out.counts[1] = 1
           /\ dheap[theap[out.t].Documents[1]].Root = Nil
      ELSE /\ (\E i \in 1..Len(in.text) : IsContentLine(in.text[i])) =>
                out.counts[1] = RegionCount(in.text, 1, FALSE)
           /\ out.counts[1] = Len(splitDocuments(in.text))
           /\ SelectSeq(ConcatDocs(splitDocuments(in.text)), IsContentLine)
                = SelectSeq(in.text, IsContentLine)


(***************************************************************************)
(* StreamParser (advanced.go).  The reader holds in.stream, the lines that *)
(* end with a newline, and in.tail, the partial line before EOF if there   *)
(* is one.  One step is one iteration of the loop of Parse.  What the      *)
(* document callback returns is the caller's choice at each invocation.    *)
(***************************************************************************)
MaxStream == 4

StreamLines ==
  {Ln(0, Raw("---")), Ln(0, Raw("...")), EmptyLine, Ln(0, Raw("x")),
   Ln(0, Entry("a", "plain", "", "x"))}

StreamTails == {<<>>, <<Ln(0, Raw("x"))>>, <<Ln(0, Raw("---"))>>,
                <<Ln(2, Raw(""))>>}

\* NewStreamParser(reader)
NewStreamParser ==
  [op |-> "NewStreamParser", currentLine |-> 0, buffer |-> <<>>,
   inDocument |-> FALSE, documentCallback |-> FALSE, calls |-> <<>>,
   err |-> ""]

\* a processBuffer that goes on after the callback has returned an error
processBuffer_deaf(st, sp, ret) ==
  IF Len(sp.buffer) = 0 THEN [st |-> st, sp |-> sp]
  ELSE Let(UnmarshalYAML(st, sp.buffer), LAMBDA tree :
    IF tree.err
      THEN [st |-> st, sp |-> [sp EXCEPT !.err = "error parsing document"]]
    ELSE IF sp.documentCallback
      THEN [st |-> tree.st,
            sp |-> [sp EXCEPT
                      !.calls = Append(@, [docs |-> Len(tree.st.t[tree.t].Documents),
                                           text |-> sp.buffer, ret |-> ret]),
                      !.buffer = <<>>]]
    ELSE [st |-> tree.st, sp |-> [sp EXCEPT !.buffer = <<>>]])

\* sp.processBuffer(), the callback returning ret; returns [st, sp] with the
\* error in sp.err; sp.calls records the callback's invocations
processBuffer(st, sp, ret) ==
  IF Len(sp.buffer) = 0 THEN [st |-> st, sp |-> sp]
  ELSE Let(UnmarshalYAML(st, sp.buffer), LAMBDA tree :
    IF tree.err
      THEN [st |-> st, sp |-> [sp EXCEPT !.err = "error parsing document"]]
    ELSE IF sp.documentCallback
      THEN [st |-> tree.st,
            sp |-> [sp EXCEPT
                      !.calls = Append(@, [docs |-> Len(tree.st.t[tree.t].Documents),
                                           text |-> sp.buffer, ret |-> ret]),
                      !.err = IF ret = "nil" THEN "" ELSE "callback error",
                      !.buffer = IF ret = "nil" THEN <<>> ELSE @]]
    ELSE [st |-> tree.st, sp |-> [sp EXCEPT !.buffer = <<>>]])

\* the branch of Parse for a "---" or "..." line
readMarker(st, sp, line, ret) ==
  Let(processBuffer(st, sp, ret), LAMBDA r :
    IF r.sp.err # "" THEN r
    ELSE [st |-> r.st,
          sp |-> [r.sp EXCEPT !.inDocument = TrimSpace(line) = Raw("---")]])

\* sp.inDocument after "Start of first document without explicit ---"
startsDocument(sp, line) ==
  sp.inDocument \/ (Len(sp.buffer) = 0 /\ TrimSpace(line) # Raw(""))

\* the branch of Parse for a line of regular content
readContent(sp, line) ==
  IF startsDocument(sp, line) \/ TrimSpace(line) # Raw("")
    THEN [sp EXCEPT !.inDocument = startsDocument(sp, line),
                    !.buffer = Append(@, line)]
    ELSE sp

InitStream ==
  Start([st |-> [h |-> <<>>, d |-> <<>>, t |-> <<>>],
         in |-> [stream |-> <<>>, tail |-> <<>>]])

\* NewStreamParser(reader) on a reader that holds a stream
CallNewStreamParser ==
  /\ pc = "ready" /\ out.op = "none"
  /\ \E stream \in SeqsUpTo(StreamLines, MaxStream), tail \in StreamTails :
       in' = [stream |-> stream, tail |-> tail]
  /\ out' = NewStreamParser
  /\ UNCHANGED <<heap, dheap, theap, pc, pre, dsl, mapOrder>>

\* the parser after a step: Parse has returned when sp.err is set or at EOF
ReturnStream(r, eof) ==
  /\ heap' = r.st.h /\ dheap' = r.st.d /\ theap' = r.st.t
  /\ out' = [r.sp EXCEPT !.op = "Parse"]
  /\ pc' = IF r.sp.err # "" \/ eof THEN "returned" ELSE "Parse"
  /\ UNCHANGED <<in, pre, dsl, mapOrder>>

CallSetDocumentCallback ==
  /\ pc = "ready" /\ out.op = "NewStreamParser"
  /\ out' = [out EXCEPT !.op = "SetDocumentCallback",
                        !.documentCallback = TRUE]
  /\ UNCHANGED <<heap, dheap, theap, in, pc, pre, dsl, mapOrder>>

\* the branch `err != io.EOF` of Parse for the line read
readLine(st, sp, line, ret) ==
  IF IsMarker(TrimSpace(line)) THEN readMarker(st, sp, line, ret)
  ELSE [st |-> st, sp |-> readContent(sp, line)]

\* an iteration of Parse that reads a whole line
ReadLine ==
  /\ pc \in {"ready", "Parse"} /\ out.op # "none"
  /\ out.currentLine < Len(in.stream)
  /\ \E ret \in {"nil", "error"} :
       \E r \in {readLine(Store, [out EXCEPT !.currentLine = @ + 1],
                          in.stream[out.currentLine + 1], ret)} :
         ReturnStream(r, FALSE)

\* the iteration of Parse that meets EOF
ReadEOF ==
  /\ pc \in {"ready", "Parse"} /\ out.op # "none"
  /\ out.currentLine = Len(in.stream)
  /\ \E ret \in {"nil", "error"} :
       \E r \in {processBuffer(Store, [out EXCEPT !.buffer = @ \o in.tail],
                               ret)} :
         ReturnStream(r, TRUE)

NextStream ==
  \/ CallNewStreamParser
  \/ CallSetDocumentCallback
  \/ ReadLine
  \/ ReadEOF

SpecStream == InitStream /\ [][NextStream]_vars


\* the part of the stream before the first marker line at or after i
RECURSIVE RegionFrom(_, _)
RegionFrom(lines, i) ==
  IF i > Len(lines) \/ IsMarker(lines[i].tok) THEN <<>>
  ELSE <<lines[i]>> \o RegionFrom(lines, i + 1)

RECURSIVE DropLeadingBlank(_)
DropLeadingBlank(lines) ==
  IF lines # <<>> /\ lines[1].tok = Raw("") THEN DropLeadingBlank(Tail(lines))
  ELSE lines

\* the text of the region that starts at line i: every line of it when the
\* region follows a "---", without its leading blank lines otherwise, and
\* with the partial last line of the stream when the region is the last
RegionText(i) ==
  LET region == RegionFrom(in.stream, i)
      kept   == IF i > 1 /\ in.stream[i - 1].tok = Raw("---") THEN region
                ELSE DropLeadingBlank(region)
  IN  IF i + Len(region) > Len(in.stream) THEN kept \o in.tail ELSE kept

\* the documents of the stream, in stream order: its regions with a text
StreamDocuments ==
  LET starts == {i \in 1..(Len(in.stream) + 1) :
                   i = 1 \/ IsMarker(in.stream[i - 1].tok)}
      RECURSIVE texts(_)
      texts(i) ==
        IF i > Len(in.stream) + 1 THEN <<>>
        ELSE (IF i \in starts /\ RegionText(i) # <<>>
                THEN <<RegionText(i)>> ELSE <<>>) \o texts(i + 1)
  IN  texts(1)

\* what the callback has been invoked on is the first documents of the
\* stream, each in a tree of one Document, and only the last invocation can
\* have returned an error, upon which Parse has returned that error
CallbackInOrder ==
  out.op # "none" =>
  /\ Len(out.calls) <= Len(StreamDocuments)
  /\ \A k \in 1..Len(out.calls) :
       /\ out.calls[k].text = StreamDocuments[k]
       /\ out.calls[k].docs = 1
       /\ out.calls[k].ret = "error" =>
            /\ k = Len(out.calls)
            /\ pc = "returned"
            /\ out.err = "callback error"
  /\ (pc = "returned" /\ out.err = "" /\ out.documentCallback) =>
       Len(out.calls) = Len(StreamDocuments)

\* C17: Parse invokes the callback once per document of the stream, in
\* stream order, each time with a tree of exactly one Document; once an
\* invocation returns an error Parse returns an error that wraps it and
\* the callback is not invoked again
C17_CallbackPerDocument ==
  /\ []CallbackInOrder
  /\ [][(out.op # "none" /\ out.err # "") =>
          (out'.calls = out.calls /\ pc = "returned")]_vars

\* Parse has returned the error of the second invocation with a third
\* document left in the stream
C17_Witness ==
  /\ pc = "returned" /\ out.err = "callback error"
  /\ Len(out.calls) = 2 /\ out.calls[2].ret = "error"
  /\ Len(StreamDocuments) = 3


\* MergeNodes was called on nodes of different kinds, or of one kind that
\* is neither Mapping nor Sequence
OverlayReplaces ==
  /\ pc = "MergeNodes"
  /\ \/ pre.h[in.base].Kind # pre.h[in.overlay].Kind
     \/ pre.h[in.base].Kind \notin {"MappingNode", "SequenceNode"}

\* C18: MergeNodes on two nodes of different kinds, or of the same kind
\* that is neither Mapping nor Sequence, returns a fresh copy of overlay
\* (kind, value, tag, style, children) whose head, line and foot comment
\* are each overlay's when overlay's is not empty and base's otherwise
C18_OverlayWithBaseComments ==
  OverlayReplaces =>
    LET b == TermOf(pre.h, in.base)
        o == TermOf(pre.h, in.overlay)
    IN  /\ TermOf(heap, out.n) =
             [o EXCEPT
                !.HeadComment = IF o.HeadComment # <<>> THEN o.HeadComment
                                ELSE b.HeadComment,
                !.LineComment = IF o.LineComment # "" THEN o.LineComment
                                ELSE b.LineComment,
                !.FootComment = IF o.FootComment # <<>> THEN o.FootComment
                                ELSE b.FootComment]
        /\ \A n \in Reach(heap, out.n) : n > Len(pre.h)

\* a scalar with all three comments has been merged with a scalar that has
\* a foot comment only
C18_Witness ==
  /\ OverlayReplaces
  /\ pre.h[in.base].Kind = "ScalarNode" /\ pre.h[in.overlay].Kind = "ScalarNode"
  /\ Len(pre.h[in.base].HeadComment) = 2 /\ pre.h[in.base].LineComment # ""
  /\ Len(pre.h[in.base].FootComment) = 1
  /\ Len(pre.h[in.overlay].FootComment) = 2
  /\ Len(heap[out.n].HeadComment) = 2 /\ Len(heap[out.n].FootComment) = 2


(***************************************************************************)
(* ConvertFromYAMLNode on one scalar: the tags, texts and styles a         *)
(* yaml.Node can carry.  yaml.v3 gives a double-quoted scalar the tag      *)
(* !!str.                                                                  *)
(***************************************************************************)
ScalarTags == {"", "!!str", "!!int", "!!float", "!!bool", "!!null", "!custom"}
ScalarTexts == {"true", "false", "null", "~", "123", "1.5", "1", "inf", "x", ""}
ScalarStyles == {{}, {"DoubleQuotedStyle"}, {"TaggedStyle"},
                 {"SingleQuotedStyle"}}

InitConvert ==
  Start([st |-> [h |-> <<>>, d |-> <<>>, t |-> <<>>], in |-> [op |-> "none"]])

CallConvertFromYAMLNode ==
  /\ pc = "ready"
  /\ \E tag \in ScalarTags, text \in ScalarTexts, style \in ScalarStyles :
       /\ in' = [yn |-> YamlNode("ScalarNode", style, tag, text, <<>>, <<>>)]
       /\ \E r \in {ConvertFromYAMLNode(heap, in'.yn)} :
            /\ heap' = r.h
            /\ out' = [op |-> "ConvertFromYAMLNode", n |-> r.n]
       /\ pc' = "ConvertFromYAMLNode"
       /\ pre' = Store
       /\ UNCHANGED <<dheap, theap, dsl, mapOrder>>

NextConvert == CallConvertFromYAMLNode

SpecConvert == InitConvert /\ [][NextConvert]_vars

\* C19: ConvertFromYAMLNode decodes a scalar by its tag first: tagged
\* !!str it keeps its text as a string value, whatever the text; tagged
\* !!int or !!float with a text of that type, or tagged !!bool or !!null,
\* its value has the tag's type; without a tag it is coerced from its text,
\* integer parsing before float parsing
C19_TagBeforeHeuristics ==
  pc = "ConvertFromYAMLNode" =>
    LET v == heap[out.n].Value
    IN  /\ in.yn.Tag = "!!str" => v = StrV(in.yn.Value)
        /\ (in.yn.Tag = "!!int" /\ IsInt(in.yn.Value)) => v.t = "int"
        /\ (in.yn.Tag = "!!float" /\ IsFloat(in.yn.Value)) => v.t = "float"
        /\ in.yn.Tag = "!!bool" => v.t = "bool"
        /\ in.yn.Tag = "!!null" => v = NilV
        /\ (in.yn.Tag = "" /\ IsInt(in.yn.Value)) => v.t = "int"
        /\ (in.yn.Tag = "" /\ IsFloat(in.yn.Value) /\ ~IsInt(in.yn.Value)) =>
             v.t = "float"


(***************************************************************************)
(* resolveAnchors on the root of a document built by hand, as the test of  *)
(* the package does: sequences of anchored nodes and aliases in any order, *)
(* aliases nested in mappings and inside the node they name.               *)
(***************************************************************************)
MaxAnchored == 3

WithAnchor(t, a) == [t EXCEPT !.Anchor = a]

AnchorItems ==
  {WithAnchor(Sc("v"), "x"), WithAnchor(Sc("w"), "y"), AliasT("x"),
   AliasT("*x"), AliasT("y"), Map(<<Sc("k"), AliasT("x")>>),
   WithAnchor(SeqT(<<AliasT("y")>>), "y")}

InitAnchors ==
  \E items \in SeqsUpTo(AnchorItems, MaxAnchored), kv \in BOOLEAN :
    Let(Build(<<>>, SeqT(items), kv), LAMBDA r :
    Let(NewNodeTree([h |-> r.h, d |-> <<>>, t |-> <<>>]), LAMBDA tree :
    Let(AddDocument(tree.st, tree.t), LAMBDA doc :
      Start([st |-> doc.st, in |-> [root |-> r.n, doc |-> doc.d]]))))

\* resolveAnchors(root, doc)
CallResolveAnchors ==
  /\ pc = "ready"
  /\ Return(resolveAnchors(Store, in.root, in.doc),
            [op |-> "resolveAnchors"], "resolveAnchors")
  /\ UNCHANGED mapOrder

NextAnchors == CallResolveAnchors

SpecAnchors == InitAnchors /\ [][NextAnchors]_vars

\* the nodes of the document that carry the anchor `name`
Anchored(name) == {n \in Reach(heap, in.root) : heap[n].Anchor = name}

\* the name an alias node refers to, without the leading '*'
NameOfAlias(n) ==
  IF heap[n].Value = StrV("*x") THEN "x"
  ELSE IF heap[n].Value = StrV("*y") THEN "y"
  ELSE heap[n].Value.s

\* no two nodes of the document carry the same anchor
UniqueAnchors ==
  \A n, m \in Reach(heap, in.root) :
    (heap[n].Anchor # "" /\ heap[n].Anchor = heap[m].Anchor) => n = m

\* C20: after resolveAnchors on a document root whose anchors are distinct,
\* every node with an anchor is registered under it in the Document, every
\* Alias node named like the anchor of a node of the document refers to
\* that node, wherever the alias stands, and an Alias node without a
\* matching anchor refers to nothing
C20_AliasesResolved ==
  (pc = "resolveAnchors" /\ UniqueAnchors) =>
    /\ \A n \in Reach(heap, in.root) :
         heap[n].Anchor # "" =>
           GetAnchor(Store, in.doc, heap[n].Anchor) = n
    /\ \A a \in Reach(heap, in.root) :
         heap[a].Kind = "AliasNode" =>
           IF Anchored(NameOfAlias(a)) # {}
             THEN heap[a].Alias \in Anchored(NameOfAlias(a))
             ELSE heap[a].Alias = Nil

(***************************************************************************)
(* Clone on arbitrary node graphs.  Three nodes are allocated and then     *)
(* linked with AddChild, AddKeyValue and the assignment node.Alias =       *)
(* target in any order, so children edges may form cycles and a node may   *)
(* be the child of two parents; then Clone is called on one of them.       *)
(***************************************************************************)
MaxFan == 2
MaxLinks == 4

InitClone ==
  \E kind \in {"ScalarNode", "AliasNode"} :
    Let(NewMappingNode(<<>>), LAMBDA a :
    Let(NewMappingNode(a.h), LAMBDA b :
    Let(NewNode(b.h, kind), LAMBDA c :
      Start([st |-> [h |-> c.h, d |-> <<>>, t |-> <<>>],
             in |-> [node |-> Nil, links |-> 0]]))))

\* the graph under construction changes, nothing has been called on it
\* yet; in.links counts the links made, at most MaxLinks
Linked(h) ==
  /\ pc = "ready"
  /\ in.links < MaxLinks
  /\ in' = [in EXCEPT !.links = @ + 1]
  /\ heap' = h
  /\ UNCHANGED <<dheap, theap, out, pc, pre, mapOrder, dsl>>

LinkAddChild ==
  \E n, child \in Nodes :
    /\ Len(heap[n].Children) < MaxFan
    /\ Linked(AddChild(heap, n, child))

LinkAddKeyValue ==
  \E n, key, value \in Nodes :
    /\ heap[n].Kind = "MappingNode"
    /\ Len(heap[n].Children) + 2 <= MaxFan
    /\ Linked(AddKeyValue(heap, n, key, value))

\* node.Alias = target, as resolveAnchors assigns it
LinkAlias ==
  \E node, target \in Nodes :
    /\ heap[node].Kind = "AliasNode"
    /\ heap[node].Alias = Nil
    /\ Linked([heap EXCEPT ![node].Alias = target])

\* clone := n.Clone()
CallClone ==
  /\ pc = "ready"
  /\ \E n \in Nodes :
       /\ in' = [in EXCEPT !.node = n]
       /\ Let(Clone(heap, n), LAMBDA r :
            /\ heap' = r.h
            /\ out' = [op |-> "Clone", n |-> r.n])
  /\ pc' = "Clone"
  /\ pre' = Store
  /\ UNCHANGED <<dheap, theap, mapOrder, dsl>>

NextClone ==
  \/ LinkAddChild
  \/ LinkAddKeyValue
  \/ LinkAlias
  \/ CallClone

SpecClone == InitClone /\ [][NextClone]_vars

\* the children of node n of heap h, as a set
ChildSet(h, n) == {h[n].Children[i] : i \in 1..Len(h[n].Children)}

RECURSIVE Closure(_, _)
\* the nodes reachable from the set S through Children and Key, computed
\* as a fixed point so that cycles are harmless
Closure(h, S) ==
  LET N == S \cup UNION {ChildSet(h, n) \cup ({h[n].Key} \ {Nil}) : n \in S}
  IN  IF N = S THEN S ELSE Closure(h, N)

\* the nodes Clone was asked to copy, and the nodes it allocated
Originals == Closure(pre.h, {in.node})
Clones == (Len(pre.h) + 1)..Len(heap)

\* f maps every original to its clone: one clone per original, the
\* children of a clone are the clones of the original's children in the
\* same order, and the Key of a clone is the clone of the original's Key
IsCloneMap(f) ==
  /\ f[in.node] = out.n
  /\ \A r, s \in Originals : f[r] = f[s] => r = s
  /\ \A r \in Originals :
       /\ Len(heap[f[r]].Children) = Len(pre.h[r].Children)
       /\ \A i \in 1..Len(pre.h[r].Children) :
            heap[f[r]].Children[i] = f[pre.h[r].Children[i]]
       /\ heap[f[r]].Key = IF pre.h[r].Key = Nil THEN Nil ELSE f[pre.h[r].Key]
       /\ heap[f[r]].Kind = pre.h[r].Kind
       /\ heap[f[r]].Value = pre.h[r].Value

\* C21: Clone returns on every node graph, cyclic or shared, having
\* allocated exactly one clone per node reachable from its receiver: the
\* clones are new objects, the originals are as they were, a node reached
\* twice has one clone, and each clone lists the clones of its original's
\* children in the original order
C21_CloneOnePerNode ==
  pc = "Clone" =>
    /\ out.n \in Clones
    /\ \A p \in 1..Len(pre.h) : heap[p] = pre.h[p]
    /\ Cardinality(Clones) = Cardinality(Originals)
    /\ \E f \in [Originals -> Clones] : IsCloneMap(f)

\* Clone has returned from a graph in which node 1 and node 2 are each
\* other's child and node 3 is the child of both
C21_Witness ==
  /\ pc = "Clone" /\ in.node = 1
  /\ pre.h[1].Children = <<2, 3>>
  /\ pre.h[2].Children = <<1, 3>>
  /\ Cardinality(Clones) = 3


\* C27: Clone keeps the alias relationships inside the cloned subtree: the
\* clone of an Alias node whose Alias reference points to a node of the
\* subtree refers to the clone of that node
C27_CloneKeepsAlias ==
  pc = "Clone" =>
    \A f \in [Originals -> Clones] :
      IsCloneMap(f) =>
        \A a \in Originals :
          (pre.h[a].Kind = "AliasNode" /\ pre.h[a].Alias \in Originals) =>
            heap[f[a]].Alias = f[pre.h[a].Alias]

(***************************************************************************)
(* Apply on a tree whose children graph has a cycle, built as the test     *)
(* "circular reference" builds it: two nodes from struct literals, each    *)
(* the other's child, as the root of the only document.  The pipeline is   *)
(* queued from the operations that do not themselves walk the tree.        *)
(***************************************************************************)
CycleShapes == {"mapping", "keyed", "sequence"}

\* node1 and node2 of the test; "keyed" gives each a scalar key before the
\* other node, so that both mappings have an even number of children
CycleHeap(shape) ==
  LET kind == IF shape = "sequence" THEN "SequenceNode" ELSE "MappingNode"
  IN  IF shape = "keyed"
        THEN <<[NewNodeRec(kind) EXCEPT !.Children = <<3, 2>>],
               [NewNodeRec(kind) EXCEPT !.Children = <<4, 1>>],
               [NewNodeRec("ScalarNode") EXCEPT !.Value = StrV("x")],
               [NewNodeRec("ScalarNode") EXCEPT !.Value = StrV("a")]>>
        ELSE <<[NewNodeRec(kind) EXCEPT !.Children = <<2>>],
               [NewNodeRec(kind) EXCEPT !.Children = <<1>>]>>

InitCycle ==
  \E shape \in CycleShapes :
    Let(NewNodeTree([h |-> CycleHeap(shape), d |-> <<>>, t |-> <<>>]),
        LAMBDA tree :
    Let(AddDocument(tree.st, tree.t), LAMBDA doc :
      Start([st |-> [doc.st EXCEPT !.d[doc.d].Root = 1],
             in |-> [tree |-> tree.t, root |-> 1, kv |-> FALSE]])))

NextCycle ==
  \/ CallSetValue
  \/ CallAddComment
  \/ CallRemoveKey
  \/ CallRenameKey
  \/ CallSortKeys
  \/ CallApply

SpecCycle == InitCycle /\ [][NextCycle]_vars

\* node n of heap h is its own descendant
OnCycle(h, n) == n \in Closure(h, ChildSet(h, n))

\* C22: Apply of a pipeline of built-in operations on a tree whose root is
\* the child of its own child returns; it does not recurse until the stack
\* is exhausted
C22_ApplyReturnsOnCycle ==
  (pc = "Apply" /\ Len(dsl) > 0 /\ OnCycle(pre.h, in.root)) =>
    out.err # "stack overflow"

(***************************************************************************)
(* Further properties of TransformDSL.Apply                                *)
(***************************************************************************)
\* the nodes of the trees Apply returned
OutNodes == UNION {Reach(heap, OutRoots[i]) : i \in DOMAIN OutRoots}

\* a scalar that the Map function "dropOnes" filters out
IsOne(h, n) == h[n].Kind = "ScalarNode" /\ Render(h[n].Value) = "1"

\* the pipeline has no Select and starts by filtering out the scalars 1
DropsOnesFirst ==
  /\ Applied /\ out.t # in.tree
  /\ FirstSelect(dsl) = 0
  /\ Len(dsl) > 0 /\ dsl[1] = MapT("dropOnes")

\* C23: in the trees Apply returns for a pipeline without Select that starts
\* with a Map filtering nodes out, no filtered-out node occurs, no later
\* operation of the pipeline has touched a filtered-out node, and every
\* Mapping has an even number of children
C23_FilteredOutCleanly ==
  DropsOnesFirst =>
    /\ \A n \in OutNodes : ~IsOne(heap, n)
    /\ \A n \in (Len(pre.h) + 1)..Len(heap) :
         IsOne(heap, n) =>
           \A j \in DOMAIN heap[n].HeadComment : heap[n].HeadComment[j] # "# c"
    /\ \A n \in OutNodes :
         heap[n].Kind = "MappingNode" => Len(heap[n].Children) % 2 = 0

(***************************************************************************)
(* The operation of SortKeys called on one Mapping of up to MaxSortPairs   *)
(* pairs, keys repeated or not.                                            *)
(***************************************************************************)
MaxSortPairs == 3

SortKeyTexts == {"a", "x", "y"}

InitSort ==
  \E keys \in SeqsUpTo(SortKeyTexts, MaxSortPairs), kv \in BOOLEAN :
    Let(Build(<<>>, Map(PairKids([i \in DOMAIN keys |-> <<Sc(keys[i]), Sc("1")>>])),
              kv),
        LAMBDA r :
          Start([st |-> [h |-> r.h, d |-> <<>>, t |-> <<>>],
                 in |-> [node |-> r.n]]))

\* transform.operation(node) for the Transform that SortKeys() queues
RunSortKeys ==
  /\ pc = "ready"
  /\ ReturnNode(SortKeys(heap, in.node), "sortKeys")
  /\ UNCHANGED mapOrder

NextSort == RunSortKeys

SpecSort == InitSort /\ [][NextSort]_vars

\* the pairs of the mapping before and after the operation
PairsBefore == pairsOf(pre.h[in.node].Children)
PairsAfter == pairsOf(heap[in.node].Children)

SortKeyOf(pair) == Render(heap[pair[1]].Value)

\* where the pair that stood at position i stands now
NewPlace(i) == CHOOSE j \in DOMAIN PairsAfter : PairsAfter[j] = PairsBefore[i]

\* SortKeys leaves the keys in non-decreasing order
KeysSorted ==
  \A i, j \in DOMAIN PairsAfter :
    i < j => ~StrGreater(SortKeyOf(PairsAfter[i]), SortKeyOf(PairsAfter[j]))

\* SortKeys leaves the same pairs, each key before its own value
PairsKept ==
  /\ Len(PairsAfter) = Len(PairsBefore)
  /\ Len(heap[in.node].Children) = Len(pre.h[in.node].Children)
  /\ \A i \in DOMAIN PairsBefore : \E j \in DOMAIN PairsAfter :
       PairsAfter[j] = PairsBefore[i]
  /\ \A n \in 1..Len(heap) :
       n # in.node => heap[n] = pre.h[n]

\* C24: the operation of SortKeys leaves the keys of a Mapping in
\* non-decreasing order of their rendered text, keeps every pair with its
\* key before its value, and keeps pairs with equal keys in their original
\* relative order
C24_SortKeysStable ==
  pc = "sortKeys" =>
    /\ KeysSorted
    /\ PairsKept
    /\ \A i, j \in DOMAIN PairsBefore :
         (i < j /\ SortKeyOf(PairsBefore[i]) = SortKeyOf(PairsBefore[j])) =>
           NewPlace(i) < NewPlace(j)

(***************************************************************************)
(* The operation of Flatten called on one Mapping with scalar keys, nested *)
(* one level deep, of at most MaxLeaves leaves.  `range flatMap` visits    *)
(* the keys in an order Go leaves unspecified: every order is an outcome.  *)
(***************************************************************************)
FlattenValues ==
  {Sc("1"), SeqT(<<Sc("2")>>), Map(<<>>), Map(<<Sc("x"), Sc("1")>>),
   Map(<<Sc("x"), Sc("1"), Sc("y"), Sc("2")>>)}

RECURSIVE TermLeaves(_)
\* the number of non-Mapping leaves of term t
TermLeaves(t) ==
  IF t.Kind # "MappingNode" THEN 1
  ELSE IF Len(t.Kids) = 0 THEN 0
  ELSE TermLeaves(t.Kids[2]) + TermLeaves([t EXCEPT !.Kids = SubSeq(@, 3, Len(@))])

\* mappings of up to MaxPairs pairs with distinct keys
FlattenTerms ==
  {t \in {Map(PairKids(ps)) :
            ps \in {q \in SeqsUpTo({<<Sc(k), v>> : k \in SortKeyTexts,
                                                   v \in FlattenValues},
                                   MaxPairs) :
                      Distinct([i \in DOMAIN q |-> q[i][1]])}} :
     TermLeaves(t) <= MaxLeaves}

InitFlatten ==
  \E t \in FlattenTerms, kv \in BOOLEAN :
    Let(Build(<<>>, t, kv), LAMBDA r :
      Start([st |-> [h |-> r.h, d |-> <<>>, t |-> <<>>],
             in |-> [node |-> r.n]]))

\* transform.operation(node) for the Transform that Flatten() queues
RunFlatten ==
  /\ pc = "ready"
  /\ \E ord \in FlatOrders :
       ReturnNode(Flatten(heap, in.node, ord), "flatten")
  /\ UNCHANGED mapOrder

NextFlatten == RunFlatten

SpecFlatten == InitFlatten /\ [][NextFlatten]_vars

RECURSIVE LeavesOf(_, _, _, _)
\* the non-Mapping leaves below the pairs i, i + 2, .. of mapping `node`,
\* depth first, each with the dot-joined path of keys that leads to it
LeavesOf(h, node, prefix, i) ==
  IF i + 1 > Len(h[node].Children) THEN <<>>
  ELSE
    LET key   == Render(h[h[node].Children[i]].Value)
        path  == IF prefix # "" THEN prefix \o "." \o key ELSE key
        value == h[node].Children[i + 1]
    IN  (IF h[value].Kind = "MappingNode"
           THEN LeavesOf(h, value, path, 1)
           ELSE <<[path |-> path, leaf |-> value]>>)
        \o LeavesOf(h, node, prefix, i + 2)

\* the leaves of the mapping Flatten was called on
Leaves == LeavesOf(pre.h, in.node, "", 1)

\* the pairs of the mapping Flatten returned
FlatPairs == pairsOf(heap[out.n].Children)

\* what Flatten returns is a new Mapping of pairs of a scalar key and a
\* value that is not a Mapping
FlatShape ==
  /\ out.n > Len(pre.h)
  /\ heap[out.n].Kind = "MappingNode"
  /\ Len(heap[out.n].Children) = 2 * Len(FlatPairs)
  /\ \A i \in DOMAIN FlatPairs :
       /\ heap[FlatPairs[i][1]].Kind = "ScalarNode"
       /\ heap[FlatPairs[i][2]].Kind # "MappingNode"

\* C25: Flatten returns a new Mapping without Mapping values that has one
\* pair per non-Mapping leaf of the original, the key being the dot-joined
\* path to the leaf and the value the leaf itself, in the depth-first order
\* of the original
C25_FlattenDepthFirst ==
  pc = "flatten" =>
    /\ FlatShape
    /\ Len(FlatPairs) = Len(Leaves)
    /\ \A i \in DOMAIN Leaves :
         /\ Render(heap[FlatPairs[i][1]].Value) = Leaves[i].path
         /\ FlatPairs[i][2] = Leaves[i].leaf

(***************************************************************************)
(* Further properties of the merge operations                              *)
(***************************************************************************)
\* the documents of the tree MergeTrees returned
OutDocs == {theap[out.t].Documents[i] : i \in 1..Len(theap[out.t].Documents)}

\* the nodes a document gives access to: those below its root and those
\* its anchor registry holds
DocNodes(d) ==
  Reach(heap, dheap[d].Root)
    \cup UNION {Reach(heap, dheap[d].Anchors[k]) : k \in DOMAIN dheap[d].Anchors}

\* C26: the tree MergeTrees returns for two trees shares no object with
\* them: the tree, each of its documents, and each node below a document
\* root or held by a document's anchor registry was allocated by the call
C26_MergeTreesSharesNothing ==
  (pc = "MergeTrees" /\ in.baseTree # Nil /\ in.overlayTree # Nil) =>
    /\ out.t > Len(pre.t)
    /\ \A d \in OutDocs \ {Nil} :
         /\ d > Len(pre.d)
         /\ \A n \in DocNodes(d) : n > Len(pre.h)

(***************************************************************************)
(* DiffNodes on two separately built nodes: pairs that differ in one       *)
(* place only, among them in a key node, in the name of an alias and in    *)
(* the presence of a document's content.                                   *)
(***************************************************************************)
DiffTerms ==
  {Sc("1"), Sc("2"), WithHead(Sc("1"), <<"# h">>), WithLine(Sc("1"), "l"),
   WithFoot(Sc("1"), <<"# f">>), WithStyle(Sc("1"), "DoubleQuotedStyle"),
   WithTag(Sc("1"), "!!str"),
   AliasT("x"), AliasT("y"),
   Map(<<Sc("a"), Sc("1")>>),
   Map(<<Sc("a"), Sc("2")>>),
   Map(<<WithHead(Sc("a"), <<"# k">>), Sc("1")>>),
   Map(<<Sc("a"), Sc("1"), Sc("b"), Sc("2")>>),
   Map(<<Sc("b"), Sc("2"), Sc("a"), Sc("1")>>),
   Map(<<Sc("a"), Sc("2"), Sc("a"), Sc("1")>>),
   Map(<<Sc("a"), AliasT("x")>>),
   SeqT(<<Sc("1")>>), SeqT(<<Sc("1"), Sc("2")>>), SeqT(<<AliasT("y")>>),
   SeqT(<<AliasT("x")>>),
   DocT(<<>>), DocT(<<Sc("1")>>), DocT(<<Sc("2")>>)}

InitDiff ==
  \E a, b \in DiffTerms :
    Let(Build(<<>>, a, TRUE), LAMBDA x :
    Let(Build(x.h, b, TRUE), LAMBDA y :
      Start([st |-> [h |-> y.h, d |-> <<>>, t |-> <<>>],
             in |-> [old |-> x.n, new |-> y.n]])))

\* DiffNodes(old, new, path)
CallDiffPair ==
  /\ pc = "ready"
  /\ \E ord \in KeyOrders, path \in Paths :
       /\ mapOrder' = ord
       /\ Return(Store,
                 [op |-> "DiffNodes", old |-> in.old, new |-> in.new,
                  after |-> pc, path |-> path,
                  diffs |-> DiffNodes(heap, in.old, in.new, path, ord)],
                 "DiffNodes")

NextDiff == CallDiffPair

SpecDiff == InitDiff /\ [][NextDiff]_vars

\* nodes o and n agree in style, tag and head, line and foot comments
SameDress(h, o, n) ==
  /\ h[o].Style = h[n].Style
  /\ h[o].Tag = h[n].Tag
  /\ h[o].HeadComment = h[n].HeadComment
  /\ h[o].LineComment = h[n].LineComment
  /\ h[o].FootComment = h[n].FootComment

\* the texts of the scalar keys of mapping n
KeyTexts(h, n) ==
  {KeyText(h, n, i) : i \in {j \in 1..NumPairs(h, n) :
                               h[KeyOf(h, n, j)].Kind = "ScalarNode"}}

\* the last pair of mapping n whose key is the scalar with text k
LastPair(h, n, k) ==
  CHOOSE i \in 1..NumPairs(h, n) :
    /\ h[KeyOf(h, n, i)].Kind = "ScalarNode" /\ KeyText(h, n, i) = k
    /\ \A j \in (i + 1)..NumPairs(h, n) :
         ~(h[KeyOf(h, n, j)].Kind = "ScalarNode" /\ KeyText(h, n, j) = k)

RECURSIVE AgreeEverywhere(_, _, _), AgreeWhereCompared(_, _, _)
\* o and n agree at every corresponding position: themselves, the key
\* nodes and the values of their mappings key by key, the items of their
\* sequences, the names of their aliases, the content of their documents
AgreeEverywhere(h, o, n) ==
  /\ h[o].Kind = h[n].Kind
  /\ h[o].Kind \in {"ScalarNode", "AliasNode"} =>
       Render(h[o].Value) = Render(h[n].Value)
  /\ SameDress(h, o, n)
  /\ h[o].Kind = "MappingNode" =>
       /\ KeyTexts(h, o) = KeyTexts(h, n)
       /\ \A k \in KeyTexts(h, o) :
            /\ SameDress(h, KeyOf(h, o, LastPair(h, o, k)),
                         KeyOf(h, n, LastPair(h, n, k)))
            /\ AgreeEverywhere(h, ValueOf(h, o, LastPair(h, o, k)),
                               ValueOf(h, n, LastPair(h, n, k)))
  /\ h[o].Kind \in {"SequenceNode", "DocumentNode"} =>
       /\ Len(h[o].Children) = Len(h[n].Children)
       /\ \A i \in 1..Len(h[o].Children) :
            AgreeEverywhere(h, h[o].Children[i], h[n].Children[i])

\* o and n agree at the positions DiffNodes compares: themselves (the
\* value for scalars only), the values of their mappings key by key, the
\* items of their sequences, and the content of their documents when both
\* have one
AgreeWhereCompared(h, o, n) ==
  /\ h[o].Kind = h[n].Kind
  /\ h[o].Kind = "ScalarNode" => Render(h[o].Value) = Render(h[n].Value)
  /\ SameDress(h, o, n)
  /\ h[o].Kind = "MappingNode" =>
       /\ KeyTexts(h, o) = KeyTexts(h, n)
       /\ \A k \in KeyTexts(h, o) :
            AgreeWhereCompared(h, ValueOf(h, o, LastPair(h, o, k)),
                               ValueOf(h, n, LastPair(h, n, k)))
  /\ h[o].Kind = "SequenceNode" =>
       /\ Len(h[o].Children) = Len(h[n].Children)
       /\ \A i \in 1..Len(h[o].Children) :
            AgreeWhereCompared(h, h[o].Children[i], h[n].Children[i])
  /\ (h[o].Kind = "DocumentNode" /\ Len(h[o].Children) > 0
      /\ Len(h[n].Children) > 0) =>
       AgreeWhereCompared(h, h[o].Children[1], h[n].Children[1])

\* DiffNodes has returned no entry for two nodes
NoDiff == pc = "DiffNodes" /\ out.diffs = <<>>

GetMapValue(h, n, key) ==
  IF h[n].Kind # "MappingNode" THEN Nil
  ELSE
    LET hits == {i \in 1..NumPairs(h, n) :
                   /\ h[KeyOf(h, n, i)].Kind = "ScalarNode"
                   /\ KeyText(h, n, i) = key}
    IN  IF hits = {} THEN Nil
        ELSE ValueOf(h, n, CHOOSE i \in hits : \A j \in hits : i <= j)

\* MergeNodes has merged a Mapping, repeated keys allowed, with a Mapping
\* of distinct scalar keys
MergedOntoRepeats ==
  /\ pc = "MergeNodes"
  /\ pre.h[in.base].Kind = "MappingNode"
  /\ DistinctScalarKeys(pre.h, in.overlay)

\* C29: after MergeNodes(base, overlay) of two Mappings, for every key of
\* overlay whose overlay value is not a Mapping, GetMapValue on the result
\* returns a node that renders as overlay's value does, also when base
\* repeats the key
C29_LookupFindsOverlay ==
  MergedOntoRepeats =>
    \A i \in 1..NumPairs(pre.h, in.overlay) :
      pre.h[ValueOf(pre.h, in.overlay, i)].Kind # "MappingNode" =>
        LET v == GetMapValue(heap, out.n, KeyText(pre.h, in.overlay, i))
        IN  /\ v # Nil
            /\ Render(heap[v].Value) =
                 Render(pre.h[ValueOf(pre.h, in.overlay, i)].Value)

(***************************************************************************)
(* StreamParser against splitDocuments                                     *)
(***************************************************************************)
\* the whole input of the stream as strings.Split(content, "\n") gives it
StreamText ==
  in.stream \o (IF in.tail = <<>> THEN <<EmptyLine>> ELSE in.tail)

\* Parse has read the whole stream, every invocation of the callback having
\* returned nil
ParsedAll == pc = "returned" /\ out.err = "" /\ out.documentCallback

\* the lines of a document text that are neither blank nor markers
ContentOf(text) == SelectSeq(text, IsContentLine)

\* C30: for an input that holds a content line, Parse hands its callback as
\* many documents as splitDocuments finds in the whole text, and the k-th
\* of them has the content lines of splitDocuments' k-th document, also
\* when content follows a `...` line
C30_SameSegmentation ==
  (ParsedAll /\ \E i \in 1..Len(StreamText) : IsContentLine(StreamText[i])) =>
    /\ Len(out.calls) = Len(splitDocuments(StreamText))
    /\ \A k \in 1..Len(out.calls) :
         ContentOf(out.calls[k].text) =
           ContentOf(splitDocuments(StreamText)[k])

====
